---- MODULE Spec2Model ----
(***************************************************************************)
(* Model of tools/import_bookings_from_gsheet.py: the field normalizers,   *)
(* the row extractor, the reconciler (influencers, bookings, traffic_logs) *)
(* and the import driver `main` with its transaction handling.             *)
(*                                                                         *)
(* Text.  A Python str is modelled as a sequence of characters, each       *)
(* character a TLA+ string.  ASCII characters stand for themselves; a CJK  *)
(* character is written as its pinyin syllable:                            *)
(*   nian 年  yue 月  ri 日  hao 号  xu 序  dao 到  fang 访  shi2 时      *)
(*   jian 间  qi 期  shi4 视  pin 频  fa 发  bu 布  lian 链  jie 接       *)
(*   yu 预  yue1 约  zi 自  lai 来  wei 未  ming 命  ming2 名  da 达      *)
(*   ren 人  mian 免  fei 费  bu4 不  shou 收                              *)
(* "nl" is the line feed.  The empty text is << >>.                        *)
(***************************************************************************)
EXTENDS Integers, Sequences, FiniteSets, TLC

(***************************************************************************)
(* Bounds of the model.                                                    *)
(***************************************************************************)
\* Number of invocations of main explored in one behaviour.
MaxRuns == 2
\* Number of data rows in a source document.
MaxRows == 2
\* Number of characters of a metric cell parsed on its own.
MaxCell == 4
\* Number of cells of a header row classified on its own.
MaxHeader == 4
\* Number of rows of a document extracted on its own.
MaxDocRows == 3
\* Number of fragments of a date text parsed on its own.
MaxFragments == 3

(***************************************************************************)
(* Text helpers (Python str methods used by the source).                   *)
(***************************************************************************)
Digits == {"0", "1", "2", "3", "4", "5", "6", "7", "8", "9"}

DigitVal(c) ==
  CASE c = "0" -> 0 [] c = "1" -> 1 [] c = "2" -> 2 [] c = "3" -> 3
    [] c = "4" -> 4 [] c = "5" -> 5 [] c = "6" -> 6 [] c = "7" -> 7
    [] c = "8" -> 8 [] c = "9" -> 9

DigitChar(n) ==
  CASE n = 0 -> "0" [] n = 1 -> "1" [] n = 2 -> "2" [] n = 3 -> "3"
    [] n = 4 -> "4" [] n = 5 -> "5" [] n = 6 -> "6" [] n = 7 -> "7"
    [] n = 8 -> "8" [] n = 9 -> "9"

\* str.isspace for the characters of the model
IsSpace(c) == c \in {" ", "nl", "cr", "tab"}

RECURSIVE LStrip(_)
LStrip(s) == IF s # << >> /\ IsSpace(Head(s)) THEN LStrip(Tail(s)) ELSE s

RECURSIVE RStrip(_)
RStrip(s) ==
  IF s # << >> /\ IsSpace(s[Len(s)]) THEN RStrip(SubSeq(s, 1, Len(s) - 1)) ELSE s

\* str.strip()
Strip(s) == RStrip(LStrip(s))

\* s[i:] of Python, with the 1-based index i
From(s, i) == SubSeq(s, i, Len(s))

\* s.startswith(p) at the 1-based offset i
MatchesAt(s, p, i) == i + Len(p) - 1 <= Len(s) /\ SubSeq(s, i, i + Len(p) - 1) = p

\* p in s
Contains(s, p) == \E i \in 1..(Len(s) + 1) : MatchesAt(s, p, i)

StartsWith(s, p) == MatchesAt(s, p, 1)

\* s.replace(c, "") for a single character c
RECURSIVE RemoveChar(_, _)
RemoveChar(s, c) ==
  IF s = << >> THEN << >>
  ELSE IF Head(s) = c THEN RemoveChar(Tail(s), c)
  ELSE <<Head(s)>> \o RemoveChar(Tail(s), c)

\* str.lower() on the ASCII letters
LowerChar(c) ==
  CASE c = "A" -> "a" [] c = "B" -> "b" [] c = "C" -> "c" [] c = "D" -> "d"
    [] c = "E" -> "e" [] c = "F" -> "f" [] c = "G" -> "g" [] c = "H" -> "h"
    [] c = "I" -> "i" [] c = "J" -> "j" [] c = "K" -> "k" [] c = "L" -> "l"
    [] c = "M" -> "m" [] c = "N" -> "n" [] c = "O" -> "o" [] c = "P" -> "p"
    [] c = "Q" -> "q" [] c = "R" -> "r" [] c = "S" -> "s" [] c = "T" -> "t"
    [] c = "U" -> "u" [] c = "V" -> "v" [] c = "W" -> "w" [] c = "X" -> "x"
    [] c = "Y" -> "y" [] c = "Z" -> "z" [] OTHER -> c

Lower(s) == [i \in 1..Len(s) |-> LowerChar(s[i])]

\* the value of a run of decimal digits
RECURSIVE IntOf(_)
IntOf(s) == IF s = << >> THEN 0 ELSE IntOf(SubSeq(s, 1, Len(s) - 1)) * 10 + DigitVal(s[Len(s)])

\* number of leading characters of s that are in the set cs
RECURSIVE RunLen(_, _)
RunLen(s, cs) == IF s # << >> /\ Head(s) \in cs THEN 1 + RunLen(Tail(s), cs) ELSE 0

\* number of leading characters of s that are not in the set cs
RECURSIVE RunLenNot(_, _)
RunLenNot(s, cs) == IF s # << >> /\ Head(s) \notin cs THEN 1 + RunLenNot(Tail(s), cs) ELSE 0

\* f"{n:d}", and the zero padding of f"{n:02d}" and f"{n:04d}"
RECURSIVE Dec(_)
Dec(n) == IF n < 10 THEN <<DigitChar(n)>> ELSE Dec(n \div 10) \o <<DigitChar(n % 10)>>

RECURSIVE ZeroPad(_, _)
ZeroPad(s, w) == IF Len(s) >= w THEN s ELSE ZeroPad(<<"0">> \o s, w)

\* least element of a non-empty set of integers
Least(S) == CHOOSE x \in S : \A y \in S : x <= y

(***************************************************************************)
(* Field normalizers.                                                      *)
(***************************************************************************)
\* str(value or "").strip(); NULL is the empty text
normalize_text(value) == Strip(value)


(***************************************************************************)
(* Python float(s) as far as int(float(s)) and float(s) > 0 need it: an    *)
(* optional sign, then inf / infinity / nan, or a decimal mantissa with an *)
(* optional exponent.  kind is "num", "inf", "nan" or "bad" (ValueError).  *)
(***************************************************************************)
BadFloat == [kind |-> "bad", neg |-> FALSE, ip |-> << >>, fp |-> << >>, exp |-> 0]

\* ([eE][+-]?[0-9]+)? as the whole of t, the text after the mantissa
Exponent(t) ==
  LET signed == Len(t) >= 2 /\ t[2] \in {"+", "-"}
      d == From(t, IF signed THEN 3 ELSE 2)
  IN  IF t = << >> THEN [ok |-> TRUE, exp |-> 0]
      ELSE IF Head(t) \in {"e", "E"} /\ d # << >> /\ RunLen(d, Digits) = Len(d)
        THEN [ok |-> TRUE, exp |-> IF signed /\ t[2] = "-" THEN 0 - IntOf(d) ELSE IntOf(d)]
      ELSE [ok |-> FALSE, exp |-> 0]

\* [0-9]*(\.[0-9]*)? at the start of body: the two digit runs and the
\* length of what they cover
Mantissa(body) ==
  LET n1 == RunLen(body, Digits)
      hasDot == n1 < Len(body) /\ body[n1 + 1] = "."
      n2 == IF hasDot THEN RunLen(From(body, n1 + 2), Digits) ELSE 0
  IN  [ip |-> SubSeq(body, 1, n1), fp |-> SubSeq(body, n1 + 2, n1 + 1 + n2),
       len |-> n1 + n2 + (IF hasDot THEN 1 ELSE 0)]

\* the text after the sign, with its mantissa m
Unsigned(body, neg, m) ==
  IF Lower(body) \in {<<"i", "n", "f">>, <<"i", "n", "f", "i", "n", "i", "t", "y">>}
    THEN [BadFloat EXCEPT !.kind = "inf", !.neg = neg]
  ELSE IF Lower(body) = <<"n", "a", "n">> THEN [BadFloat EXCEPT !.kind = "nan"]
  ELSE IF Len(m.ip) + Len(m.fp) = 0 \/ ~Exponent(From(body, m.len + 1)).ok THEN BadFloat
  ELSE [kind |-> "num", neg |-> neg, ip |-> m.ip, fp |-> m.fp,
        exp |-> Exponent(From(body, m.len + 1)).exp]

ParseFloat(s) ==
  LET signed == s # << >> /\ Head(s) \in {"+", "-"}
      body == IF signed THEN Tail(s) ELSE s
  IN  Unsigned(body, signed /\ Head(s) = "-", Mantissa(body))

\* leading zeros removed
RECURSIVE StripZeros(_)
StripZeros(s) == IF s # << >> /\ Head(s) = "0" THEN StripZeros(Tail(s)) ELSE s

\* trailing zeros removed
RECURSIVE RStripZeros(_)
RStripZeros(s) ==
  IF s # << >> /\ s[Len(s)] = "0" THEN RStripZeros(SubSeq(s, 1, Len(s) - 1)) ELSE s

\* s followed by n zeros
RECURSIVE AppendZeros(_, _)
AppendZeros(s, n) == IF n <= 0 THEN s ELSE AppendZeros(s \o <<"0">>, n - 1)

\* The largest finite double is below 1.8e308: a value with more than 309
\* integer digits is float("inf").
MaxFloatDigits == 308 + 1

(***************************************************************************)
(* int(float(s)): [raises |-> "" | "OverflowError" | "ValueError",         *)
(* value |-> the integer, truncated toward zero].                          *)
(***************************************************************************)
IntOfParsed(f) ==
  LET digits == f.ip \o f.fp
      sig == StripZeros(digits)
      \* number of digits of the integer part of the value
      intLen == Len(f.ip) + f.exp
      sigIntLen == Len(sig) - Len(f.fp) + f.exp
      intDigits == IF intLen <= 0 THEN << >>
                   ELSE SubSeq(AppendZeros(digits, intLen - Len(digits)), 1, intLen)
  IN  IF f.kind \in {"bad", "nan"} THEN [raises |-> "ValueError", value |-> 0]
      ELSE IF f.kind = "inf" THEN [raises |-> "OverflowError", value |-> 0]
      ELSE IF sig # << >> /\ sigIntLen > MaxFloatDigits
        THEN [raises |-> "OverflowError", value |-> 0]
      ELSE [raises |-> "", value |-> IF f.neg THEN 0 - IntOf(intDigits) ELSE IntOf(intDigits)]

IntOfFloat(s) == IntOfParsed(ParseFloat(s))

RECURSIVE Pow10(_)
Pow10(n) == IF n <= 0 THEN 1 ELSE 10 * Pow10(n - 1)

\* int(round(float(num) * factor)) for num = ip "." fp, round-half-even
RoundScaled(ip, fp, factor) ==
  LET n == IntOf(ip \o fp) * factor
      d == Pow10(Len(fp))
      q == n \div d
      r == n % d
  IN  IF 2 * r > d THEN q + 1
      ELSE IF 2 * r = d THEN q + (q % 2)
      ELSE q

\* re.fullmatch(r"([0-9]+(?:[.,][0-9]+)?)" + suffix, lower): the two digit
\* runs of group 1, or ok = FALSE
MatchSuffixed(lower, suffix) ==
  LET n1 == RunLen(lower, Digits)
      rest1 == From(lower, n1 + 1)
      hasSep == rest1 # << >> /\ Head(rest1) \in {".", ","}
      n2 == IF hasSep THEN RunLen(Tail(rest1), Digits) ELSE 0
      rest2 == IF hasSep /\ n2 > 0 THEN From(rest1, n2 + 2) ELSE rest1
  IN  [ok |-> n1 > 0 /\ rest2 = <<suffix>>,
       ip |-> SubSeq(lower, 1, n1),
       fp |-> IF hasSep /\ n2 > 0 THEN SubSeq(rest1, 2, n2 + 1) ELSE << >>]

\* the result for a text that is not empty: k and m are the matches of
\* the two suffixed forms, plain is int(float(s.replace(",", "")))
MetricOf(k, m, plain) ==
  IF k.ok THEN [raises |-> "", value |-> RoundScaled(k.ip, k.fp, 1000)]
  ELSE IF m.ok THEN [raises |-> "", value |-> RoundScaled(m.ip, m.fp, 1000000)]
  ELSE IF plain.raises = "ValueError" THEN [raises |-> "", value |-> 0]
  ELSE plain

parse_int_metric(raw) ==
  LET s0 == RemoveChar(normalize_text(raw), "dq")
      s == RemoveChar(s0, " ")
  IN  IF s0 = << >> THEN [raises |-> "", value |-> 0]
      ELSE MetricOf(MatchSuffixed(Lower(s), "k"), MatchSuffixed(Lower(s), "m"),
                    IntOfFloat(RemoveChar(s, ",")))

(***************************************************************************)
(* A float that is a decimal: int part and fraction digits (trailing       *)
(* zeros dropped).  Zero is [int |-> 0, frac |-> << >>].                   *)
(***************************************************************************)
FloatZero == [int |-> 0, frac |-> << >>]

BU_SHOU_FEI == <<"bu4", "shou", "fei">>  \* 不收费
MIAN_FEI == <<"mian", "fei">>            \* 免费

parse_budget_wan(raw) ==
  LET s == normalize_text(raw)
      t == RemoveChar(s, ",")
      starts == {i \in 1..Len(t) : t[i] \in Digits}
      i == Least(starts)
      n1 == RunLen(From(t, i), Digits)
      rest == From(t, i + n1)
      n2 == IF Len(rest) >= 2 /\ rest[1] = "." THEN RunLen(Tail(rest), Digits) ELSE 0
  IN  IF s = << >> THEN FloatZero
      ELSE IF Contains(s, BU_SHOU_FEI) \/ Contains(s, MIAN_FEI) THEN FloatZero
      ELSE IF starts = {} THEN FloatZero
      ELSE [int |-> IntOf(SubSeq(t, i, i + n1 - 1)),
            frac |-> RStripZeros(SubSeq(rest, 2, n2 + 1))]

\* float(x) > 0
FloatPositive(x) == x.int > 0 \/ x.frac # << >>
(***************************************************************************)
(* Date normalizers.  A regular expression is matched as re.search does:   *)
(* at the leftmost offset where it matches, greedy groups backtracking.    *)
(***************************************************************************)
\* None of Optional[int]
None == 0 - 1

\* truth value of an Optional[int]: None and 0 are falsy
Truthy(y) == y # None /\ y # 0

CharAt(s, i, cs) == i >= 1 /\ i <= Len(s) /\ s[i] \in cs

\* (\d{1,2}) followed by a character of cs: the length of the group, or 0
Dig12Then(s, i, cs) ==
  IF CharAt(s, i, Digits) /\ CharAt(s, i + 1, Digits) /\ CharAt(s, i + 2, cs) THEN 2
  ELSE IF CharAt(s, i, Digits) /\ CharAt(s, i + 1, cs) THEN 1
  ELSE 0

\* a final (\d{1,2}): the length of the group, or 0
Dig12(s, i) ==
  IF CharAt(s, i, Digits) /\ CharAt(s, i + 1, Digits) THEN 2
  ELSE IF CharAt(s, i, Digits) THEN 1
  ELSE 0

\* \d{4}
Dig4(s, i) == \A j \in i..(i + 3) : CharAt(s, j, Digits)

NoMatch == [len |-> 0, g1 |-> 0, g2 |-> 0, g3 |-> 0]

\* (\d{4}) sep (\d{1,2}) sep2 (\d{1,2}) at offset i
MatchYMD(s, i, sep, sep2) ==
  LET k1 == Dig12Then(s, i + 5, sep2)
      k2 == Dig12(s, i + 6 + k1)
  IN  IF Dig4(s, i) /\ CharAt(s, i + 4, sep) /\ k1 > 0 /\ k2 > 0
        THEN [len |-> 6 + k1 + k2,
              g1 |-> IntOf(SubSeq(s, i, i + 3)),
              g2 |-> IntOf(SubSeq(s, i + 5, i + 4 + k1)),
              g3 |-> IntOf(SubSeq(s, i + 6 + k1, i + 5 + k1 + k2))]
        ELSE NoMatch

\* (\d{1,2})/(\d{1,2})/(\d{4}) at offset i
MatchDMY(s, i) ==
  LET k1 == Dig12Then(s, i, {"/"})
      k2 == Dig12Then(s, i + k1 + 1, {"/"})
      j == i + k1 + k2 + 2
  IN  IF k1 > 0 /\ k2 > 0 /\ Dig4(s, j)
        THEN [len |-> k1 + k2 + 6,
              g1 |-> IntOf(SubSeq(s, i, i + k1 - 1)),
              g2 |-> IntOf(SubSeq(s, i + k1 + 1, i + k1 + k2)),
              g3 |-> IntOf(SubSeq(s, j, j + 3))]
        ELSE NoMatch

\* (\d{1,2}) sep (\d{1,2}) at offset i
MatchPair(s, i, sep) ==
  LET k1 == Dig12Then(s, i, sep)
      k2 == Dig12(s, i + k1 + 1)
  IN  IF k1 > 0 /\ k2 > 0
        THEN [len |-> k1 + k2 + 1,
              g1 |-> IntOf(SubSeq(s, i, i + k1 - 1)),
              g2 |-> IntOf(SubSeq(s, i + k1 + 1, i + k1 + k2)),
              g3 |-> 0]
        ELSE NoMatch

\* the four date patterns of the source
MatchAt(pat, s, i) ==
  CASE pat = "ymd" -> MatchYMD(s, i, {"/", "-"}, {"/", "-"})
    [] pat = "dmy" -> MatchDMY(s, i)
    [] pat = "cn_ymd" -> MatchYMD(s, i, {"nian"}, {"yue"})
    [] pat = "slash_pair" -> MatchPair(s, i, {"/"})
    [] pat = "cn_md" -> MatchPair(s, i, {"yue"})

\* the leftmost of the matches hits, or at = 0
Leftmost(hits) ==
  IF hits = {} THEN [at |-> 0, m |-> NoMatch]
  ELSE CHOOSE h \in hits : \A g \in hits : h.at <= g.at

\* re.search(pat, s): [at |-> the offset (0: no match), m |-> the groups]
Search(pat, s) ==
  Leftmost({h \in {[at |-> i, m |-> MatchAt(pat, s, i)] : i \in 1..Len(s)} : h.m.len > 0})

\* s without the match r
Cut(s, r) ==
  IF r.at = 0 THEN s
  ELSE SubSeq(s, 1, r.at - 1) \o From(s, r.at + r.m.len)

\* re.sub(pat, "", s, count=1)
SubFirst(pat, s) == Cut(s, Search(pat, s))

\* f"{y:04d}-{mo:02d}-{d:02d}"
IsoFormat(y, mo, d) ==
  ZeroPad(Dec(y), 4) \o <<"-">> \o ZeroPad(Dec(mo), 2) \o <<"-">> \o ZeroPad(Dec(d), 2)

\* the day/month heuristic shared by to_iso_date and
\* parse_day_month_with_year: [d, mo] from the two numbers as written
DayMonth(a, b, prefer_day_first) ==
  IF a > 12 /\ b <= 12 THEN [d |-> a, mo |-> b]
  ELSE IF b > 12 /\ a <= 12 THEN [mo |-> a, d |-> b]
  ELSE IF prefer_day_first THEN [d |-> a, mo |-> b]
  ELSE [mo |-> a, d |-> b]

\* the three searches of to_iso_date in the order the source tries them
FirstDate(m1, m2, m3, prefer_day_first) ==
  LET dm == DayMonth(m2.m.g1, m2.m.g2, prefer_day_first)
  IN  IF m1.at > 0 THEN IsoFormat(m1.m.g1, m1.m.g2, m1.m.g3)
      ELSE IF m2.at > 0 THEN IsoFormat(m2.m.g3, dm.mo, dm.d)
      ELSE IF m3.at > 0 THEN IsoFormat(m3.m.g1, m3.m.g2, m3.m.g3)
      ELSE << >>

to_iso_date(value, prefer_day_first) ==
  LET s0 == normalize_text(value)
      s == RemoveChar(RemoveChar(s0, "hao"), "ri")
  IN  IF s0 = << >> THEN << >>
      ELSE FirstDate(Search("ymd", s), Search("dmy", s), Search("cn_ymd", s), prefer_day_first)

\* the date of the match m of (\d{1,2})/(\d{1,2}) in the given year
DayMonthOf(m, year, prefer_day_first) ==
  LET dm == DayMonth(m.m.g1, m.m.g2, prefer_day_first)
  IN  IF m.at = 0 THEN << >> ELSE IsoFormat(year, dm.mo, dm.d)

parse_day_month_with_year(value, year, prefer_day_first) ==
  IF normalize_text(value) = << >> THEN << >>
  ELSE DayMonthOf(Search("slash_pair", normalize_text(value)), year, prefer_day_first)

\* context_year or fallback_year
OrElse(a, b) == IF Truthy(a) THEN a ELSE b

\* iso is to_iso_date(raw, prefer_day_first=True)
PostDateOr(iso, raw, year) ==
  IF iso # << >> THEN iso
  ELSE IF ~Truthy(year) THEN << >>
  ELSE parse_day_month_with_year(raw, year, TRUE)

parse_post_date(value, context_year, fallback_year) ==
  IF normalize_text(value) = << >> THEN << >>
  ELSE PostDateOr(to_iso_date(normalize_text(value), TRUE), normalize_text(value),
                  OrElse(context_year, fallback_year))

\* [found |-> BOOLEAN, mo, d]
extract_month_day(text) ==
  LET m == Search("cn_md", normalize_text(text))
  IN  [found |-> m.at > 0, mo |-> m.m.g1, d |-> m.m.g2]

\* the characters re.sub(r"^[\s，,。\.、\-—:：]+", "", window) removes:
\* white space, and fcomma ， fstop 。 dun 、 emdash — fcolon ：
LeadingPunctuation == {" ", "nl", "cr", "tab", "fcomma", ",", "fstop", ".", "dun", "-", "emdash", ":", "fcolon"}

\* int(iso[:4])
YearOf(iso) == IntOf(SubSeq(iso, 1, 4))

\* iso = to_iso_date(raw, prefer_day_first=True), else the month and day
\* md in the context year
VisitIso(iso0, md, year) ==
  IF iso0 # << >> THEN iso0
  ELSE IF md.found /\ Truthy(year) THEN IsoFormat(year, md.mo, md.d)
  ELSE << >>

\* the window: raw with the first date of each pattern, 号 and 日, and the
\* leading punctuation removed
VisitWindow(raw) ==
  LET w1 == SubFirst("ymd", raw)
      w2 == SubFirst("dmy", w1)
      w3 == SubFirst("cn_ymd", w2)
      w4 == SubFirst("cn_md", w3)
      w5 == RemoveChar(RemoveChar(w4, "hao"), "ri")
  IN  Strip(From(w5, RunLen(w5, LeadingPunctuation) + 1))

\* [date |-> iso, window |-> window] for a raw text that is not empty
VisitOf(raw, iso) ==
  IF iso # << >> THEN [date |-> iso, window |-> VisitWindow(raw)]
  ELSE [date |-> << >>, window |-> raw]

parse_visit_date_and_window(visit_raw, context_year, fallback_year) ==
  LET raw == normalize_text(visit_raw)
  IN  IF raw = << >> THEN [date |-> << >>, window |-> << >>]
      ELSE VisitOf(raw, VisitIso(to_iso_date(raw, TRUE), extract_month_day(raw),
                                 OrElse(context_year, fallback_year)))

(***************************************************************************)
(* Handle and contact method.                                              *)
(***************************************************************************)
TIKTOK_AT == <<"t", "i", "k", "t", "o", "k", ".", "c", "o", "m", "/", "@">>

\* str.lstrip("@")
RECURSIVE LStripAt(_)
LStripAt(s) == IF s # << >> /\ Head(s) = "@" THEN LStripAt(Tail(s)) ELSE s

\* re.search(r"tiktok\.com/@([^/?#]+)", s), then strip and one "@"
parse_tiktok_handle(profile_url) ==
  LET s == normalize_text(profile_url)
      hits == {i \in 1..Len(s) :
                 MatchesAt(s, TIKTOK_AT, i) /\ RunLenNot(From(s, i + 12), {"/", "?", "#"}) > 0}
      i == Least(hits)
      group == SubSeq(s, i + 12, i + 11 + RunLenNot(From(s, i + 12), {"/", "?", "#"}))
      handle == LStripAt(Strip(group))
  IN  IF s = << >> THEN << >>
      ELSE IF hits = {} THEN << >>
      ELSE IF handle = << >> THEN << >>
      ELSE <<"@">> \o handle

ContactMethods ==
  { <<"z", "a", "l", "o">>, <<"t", "i", "k", "t", "o", "k">>, <<"i", "g">>,
    <<"i", "n", "s", "t", "a", "g", "r", "a", "m">>, <<"f", "b">>,
    <<"f", "a", "c", "e", "b", "o", "o", "k">> }

normalize_contact_method(raw) ==
  LET s == normalize_text(raw)
      s_lower == Lower(s)
  IN  IF s = << >> THEN << >>
      ELSE IF s_lower \in ContactMethods
        THEN (IF s_lower = <<"i", "n", "s", "t", "a", "g", "r", "a", "m">>
                THEN <<"i", "g">> ELSE s_lower)
      ELSE s
(***************************************************************************)
(* Row classifier and row extractor.  csv_text is the document as          *)
(* csv.reader splits it: a sequence of rows, each a sequence of cells.     *)
(***************************************************************************)
\* the number of columns read_rows pads or cuts every row to
Columns == 15

\* row + [""] * (15 - len(row)), then row[:15]
PadRow(row) == [i \in 1..Columns |-> IF i <= Len(row) THEN row[i] ELSE << >>]

read_rows(text) == [i \in 1..Len(text) |-> PadRow(text[i])]

\* row[k] of Python (0-based k)
Cell(row, k) == row[k + 1]

normalize_header_cell(value) ==
  RemoveChar(RemoveChar(RemoveChar(normalize_text(value), "nl"), "cr"), " ")

\* ",".join(cells)
RECURSIVE JoinComma(_)
JoinComma(cells) ==
  IF cells = << >> THEN << >>
  ELSE IF Len(cells) = 1 THEN cells[1]
  ELSE cells[1] \o <<",">> \o JoinComma(Tail(cells))

\* [h for h in cells if h]
RECURSIVE NonEmpty(_)
NonEmpty(cells) ==
  IF cells = << >> THEN << >>
  ELSE IF Head(cells) = << >> THEN NonEmpty(Tail(cells))
  ELSE <<Head(cells)>> \o NonEmpty(Tail(cells))

DAO_FANG_SHI_JIAN == <<"dao", "fang", "shi2", "jian">>          \* 到访时间
DAO_FANG_RI_QI == <<"dao", "fang", "ri", "qi">>                 \* 到访日期
SHI_PIN_FA_BU_RI_QI == <<"shi4", "pin", "fa", "bu", "ri", "qi">> \* 视频发布日期
SHI_PIN_LIAN_JIE == <<"shi4", "pin", "lian", "jie">>            \* 视频链接
XU_HAO == <<"xu", "hao">>                                        \* 序号

\* detect_sheet_mode without the visit-date half of its first test
DetectIgnoringVisitDate(header_row) ==
  LET header == [i \in 1..Len(header_row) |-> normalize_header_cell(header_row[i])]
      header_blob == JoinComma(NonEmpty(header))
  IN  IF /\ Contains(header_blob, SHI_PIN_FA_BU_RI_QI)
         /\ Contains(header_blob, SHI_PIN_LIAN_JIE)
         /\ ~Contains(header_blob, DAO_FANG_SHI_JIAN)
        THEN "walkin"
      ELSE "booking"

detect_sheet_mode(header_row) ==
  LET header == [i \in 1..Len(header_row) |-> normalize_header_cell(header_row[i])]
      header_blob == JoinComma(NonEmpty(header))
  IN  IF Contains(header_blob, DAO_FANG_SHI_JIAN) \/ Contains(header_blob, DAO_FANG_RI_QI)
        THEN "booking"
      ELSE IF /\ Contains(header_blob, SHI_PIN_FA_BU_RI_QI)
              /\ Contains(header_blob, SHI_PIN_LIAN_JIE)
              /\ ~Contains(header_blob, DAO_FANG_SHI_JIAN)
        THEN "walkin"
      ELSE "booking"

\* the header test of extract_import_rows
IsHeaderFirst(first) ==
  /\ first # << >>
  /\ \/ Contains(first, XU_HAO)
     \/ Lower(first) = <<"n", "o">>
     \/ Lower(first) = <<"i", "n", "d", "e", "x">>

\* the header test of the mode probe in main
IsProbeFirst(probe_first) ==
  /\ probe_first # << >>
  /\ \/ Contains(probe_first, XU_HAO)
     \/ Lower(probe_first) = <<"n", "o">>
     \/ Lower(probe_first) = <<"i", "n", "d", "e", "x">>
     \/ Contains(probe_first, <<"I", "D">>)

\* re.fullmatch(r"\d+", first)
AllDigits(first) == first # << >> /\ RunLen(first, Digits) = Len(first)

\* the ImportRow of a data row read with the walk-in column layout
WalkinItem(first, row) ==
  [seq |-> first, profile_url |-> Cell(row, 1), contact_raw |-> << >>,
   price_raw |-> << >>, video_rights |-> << >>, service_detail |-> << >>,
   visit_raw |-> Cell(row, 5), post_date_raw |-> Cell(row, 3),
   video_link |-> Cell(row, 4), views_raw |-> Cell(row, 10),
   likes_raw |-> Cell(row, 11), comments_raw |-> Cell(row, 12),
   saves_raw |-> Cell(row, 13), shares_raw |-> Cell(row, 14)]

\* the ImportRow of a data row read with the booking column layout
BookingItem(first, row) ==
  [seq |-> first, profile_url |-> Cell(row, 1), contact_raw |-> Cell(row, 3),
   price_raw |-> Cell(row, 4), video_rights |-> Cell(row, 5),
   service_detail |-> Cell(row, 6), visit_raw |-> Cell(row, 7),
   post_date_raw |-> Cell(row, 8), video_link |-> Cell(row, 9),
   views_raw |-> Cell(row, 10), likes_raw |-> Cell(row, 11),
   comments_raw |-> Cell(row, 12), saves_raw |-> Cell(row, 13),
   shares_raw |-> Cell(row, 14)]

\* a context row always sets the year, to None when its date does not parse
YearReset(iso, context_year) == IF iso # << >> THEN YearOf(iso) ELSE None

\* context_year = int(iso[:4]) if iso
YearOr(iso, context_year) == IF iso # << >> THEN YearOf(iso) ELSE context_year

\* The generator as a fold over the rows: the sequence of
\* [context_year, item] it yields.  mode is "" for Python's None.
RECURSIVE ExtractFrom(_, _, _)
ExtractFrom(rows, context_year, mode) ==
  IF rows = << >> THEN << >>
  ELSE
    LET row == Head(rows)
        first == normalize_text(Cell(row, 0))
        active_mode == IF mode = "" THEN "booking" ELSE mode
    IN  IF IsHeaderFirst(first)
          THEN ExtractFrom(Tail(rows), context_year, detect_sheet_mode(row))
        ELSE IF first = << >>
          THEN ExtractFrom(Tail(rows),
                           YearOr(to_iso_date(normalize_text(Cell(row, 1)), TRUE), context_year),
                           mode)
        ELSE IF ~AllDigits(first)
          THEN ExtractFrom(Tail(rows), context_year, mode)
        ELSE <<[context_year |-> context_year,
                item |-> IF active_mode = "walkin" THEN WalkinItem(first, row)
                         ELSE BookingItem(first, row)]>>
             \o ExtractFrom(Tail(rows), context_year, mode)

extract_import_rows(text) == ExtractFrom(read_rows(text), None, "")

\* the one-time mode probe of main
RECURSIVE ProbeFrom(_)
ProbeFrom(rows) ==
  IF rows = << >> THEN "booking"
  ELSE IF IsProbeFirst(normalize_text(Cell(Head(rows), 0))) THEN detect_sheet_mode(Head(rows))
  ELSE ProbeFrom(Tail(rows))

probe_sheet_mode(text) == ProbeFrom(read_rows(text))

(***************************************************************************)
(* Profile-only extraction.                                                *)
(***************************************************************************)
LIAN_JIE == <<"lian", "jie">>                           \* 链接
LIAN_XI_FANG_SHI == <<"lian2", "xi", "fang2", "shi5">>  \* 联系方式
JIA_GE == <<"jia", "ge">>                               \* 价格
JU_TI_FU_WU == <<"ju", "ti", "fu", "wu">>               \* 具体服务
SHI_PIN_SHOU_QUAN == <<"shi4", "pin", "shou", "quan">>  \* 视频授权
SHI_PIN_JIE_GUO == <<"shi4", "pin", "jie2", "guo">>     \* 视频结果
BEI_ZHU == <<"bei", "zhu">>                             \* 备注
\* "：", the full-width colon between a label and its value
FW_COLON == <<"fwcolon">>

\* sep.join(cells)
RECURSIVE Join(_, _)
Join(cells, sep) ==
  IF cells = << >> THEN << >>
  ELSE IF Len(cells) = 1 THEN cells[1]
  ELSE cells[1] \o sep \o Join(Tail(cells), sep)

\* find_col: the 0-based position of the first non-empty header cell that
\* contains one of the needles, or None
find_col(header, needles) ==
  LET hits == {i \in 1..Len(header) :
                 header[i] # << >> /\ \E n \in needles : Contains(header[i], n)}
  IN  IF hits = {} THEN None ELSE Least(hits) - 1

detect_columns(header_row) ==
  LET header == [i \in 1..Len(header_row) |-> normalize_header_cell(header_row[i])]
  IN  [id |-> find_col(header, {<<"I", "D">>, LIAN_JIE, <<"zhu3", "ye">>}),
       contact |-> find_col(header, {LIAN_XI_FANG_SHI, <<"lian2", "xi">>}),
       price |-> find_col(header, {JIA_GE, <<"bao", "jia">>}),
       service |-> find_col(header, {JU_TI_FU_WU, <<"fu", "wu">>}),
       rights |-> find_col(header, {SHI_PIN_SHOU_QUAN, <<"shou", "quan">>}),
       visit |-> find_col(header, {DAO_FANG_SHI_JIAN, <<"dao", "fang">>}),
       post |-> find_col(header, {SHI_PIN_FA_BU_RI_QI, <<"fa", "bu", "ri", "qi">>}),
       video |-> find_col(header, {SHI_PIN_LIAN_JIE, LIAN_JIE}),
       result |-> find_col(header, {SHI_PIN_JIE_GUO, <<"jie2", "guo">>}),
       note |-> find_col(header, {BEI_ZHU})]

\* the default positions used when no header row came first
FallbackCols ==
  [id |-> 1, contact |-> 3, price |-> 4, rights |-> 5, service |-> 6, visit |-> 7,
   post |-> 8, video |-> 9, result |-> 10, note |-> None]

is_tiktok_profile_url(value) == Contains(normalize_text(value), TIKTOK_AT)

\* the header test of extract_influencer_only_rows
IsProfileHeaderFirst(first) ==
  /\ first # << >>
  /\ \/ Contains(first, <<"I", "D">>)
     \/ Contains(first, XU_HAO)
     \/ Contains(first, LIAN_JIE)

\* normalize_text(row[col]) if col is a position of the row, else ""
ColCell(col, row) == IF col = None \/ col >= Len(row) THEN << >> ELSE normalize_text(Cell(row, col))

\* f"{label}：{val}" when the column holds a value, for one of the eight
\* note columns
NotePart(col, label, is_video, row) ==
  LET val == ColCell(col, row)
  IN  IF col # None /\ col < Len(row) /\ val # << >>
         /\ (~is_video \/ ~Contains(val, <<"t", "i", "k", "t", "o", "k", ".", "c", "o", "m", "/">>))
        THEN <<label \o FW_COLON \o val>>
      ELSE << >>

\* the note_parts of a profile row, in the order of the list of line 325
NoteParts(cols, row) ==
  NotePart(cols.price, JIA_GE, FALSE, row)
  \o NotePart(cols.rights, SHI_PIN_SHOU_QUAN, FALSE, row)
  \o NotePart(cols.service, JU_TI_FU_WU, FALSE, row)
  \o NotePart(cols.visit, DAO_FANG_SHI_JIAN, FALSE, row)
  \o NotePart(cols.post, SHI_PIN_FA_BU_RI_QI, FALSE, row)
  \o NotePart(cols.video, SHI_PIN_LIAN_JIE, TRUE, row)
  \o NotePart(cols.result, SHI_PIN_JIE_GUO, FALSE, row)
  \o NotePart(cols.note, BEI_ZHU, FALSE, row)

\* " ".join of the non-empty trimmed cells of a continuation row
ExtraOf(row) == Join(NonEmpty([i \in 1..Len(row) |-> normalize_text(row[i])]), <<" ">>)

\* current before the first profile row (Python's None)
NoCurrent == [set |-> FALSE, profile_url |-> << >>, contact_raw |-> << >>]

\* flush: the rows with the current influencer appended, when there is one
\* (no entry of buffer_notes is blank, so the filter of line 299 keeps all)
flush(rows, current, buffer_notes) ==
  IF ~current.set THEN rows
  ELSE Append(rows, [profile_url |-> current.profile_url,
                     contact_raw |-> current.contact_raw,
                     notes |-> Strip(Join(buffer_notes, <<"nl">>))])

\* no removal of duplicates
KeepDuplicates(rows, seen) == rows

\* remove duplicates by profile_url, keeping the first
RECURSIVE Unique(_, _)
Unique(rows, seen) ==
  IF rows = << >> THEN << >>
  ELSE LET key == normalize_text(Head(rows).profile_url)
       IN  IF key = << >> \/ key \in seen THEN Unique(Tail(rows), seen)
           ELSE <<Head(rows)>> \o Unique(Tail(rows), seen \cup {key})

\* The loop of extract_influencer_only_rows as a fold over the rows.
\* has_cols: cols is not None.
RECURSIVE ProfilesFrom(_, _, _, _, _, _)
ProfilesFrom(todo, has_cols, cols, rows, current, buffer_notes) ==
  IF todo = << >> THEN flush(rows, current, buffer_notes)
  ELSE
    LET row == Head(todo)
        first == normalize_text(Cell(row, 0))
    IN  IF ~has_cols /\ IsProfileHeaderFirst(first)
          THEN ProfilesFrom(Tail(todo), TRUE, detect_columns(row), rows, current, buffer_notes)
        ELSE
          LET cols1 == IF has_cols THEN cols ELSE FallbackCols
              profile_url == ColCell(cols1.id, row)
              extra == ExtraOf(row)
          IN  IF is_tiktok_profile_url(profile_url)
                THEN ProfilesFrom(Tail(todo), TRUE, cols1, flush(rows, current, buffer_notes),
                                  [set |-> TRUE, profile_url |-> profile_url,
                                   contact_raw |-> ColCell(cols1.contact, row)],
                                  NoteParts(cols1, row))
              ELSE ProfilesFrom(Tail(todo), TRUE, cols1, rows, current,
                                IF current.set /\ extra # << >>
                                  THEN Append(buffer_notes, extra) ELSE buffer_notes)

extract_influencer_only_rows(text) ==
  Unique(ProfilesFrom(read_rows(text), FALSE, FallbackCols, << >>, NoCurrent, << >>), {})
(***************************************************************************)
(* The store.  A table is the sequence of its rows in insertion order; a   *)
(* row's id is its position (generate_id draws a fresh random id, and no   *)
(* row is ever deleted).  A connection's view of the three tables is a     *)
(* record [influencers, bookings, traffic_logs].  The stores table is      *)
(* read only.                                                              *)
(***************************************************************************)
YU_YUE == <<"yu", "yue1">>                              \* 预约
ZI_LAI == <<"zi", "lai">>                               \* 自来
WEI_MING_MING_DA_REN == <<"wei", "ming", "ming2", "da", "ren">>  \* 未命名达人

\* stores(id, name)
StoreIds == {<<"s", "1">>, <<"s", "2">>}

\* SELECT id, name FROM stores WHERE id = ?: found, or SystemExit
ensure_store(store_id) ==
  IF store_id \in StoreIds
    THEN [found |-> TRUE, id |-> store_id, name |-> IF store_id = <<"s", "1">> THEN <<"A">> ELSE <<"B">>]
    ELSE [found |-> FALSE, id |-> << >>, name |-> << >>]

\* SELECT ... LIMIT 1 without ORDER BY: any one of the matching rows
\* (0 stands for None when there is none)
LimitOne(ids) == IF ids = {} THEN {0} ELSE ids

\* a lookup that never finds a row
FindNoInfluencer(c, handle) == {0}

find_influencer_by_handle(c, handle) ==
  IF handle = << >> THEN {0}
  ELSE LimitOne({i \in 1..Len(c.influencers) : c.influencers[i].handle = handle})

\* re.fullmatch(r"[0-9\s+()-]{6,}", contact_method)
IsPhoneShaped(s) ==
  /\ Len(s) >= 6
  /\ \A i \in 1..Len(s) : s[i] \in Digits \/ IsSpace(s[i]) \/ s[i] \in {"+", "(", ")", "-"}

\* a patch that writes every incoming value that is not empty
OverwriteInfluencer(ex, display_name, handle, contact_method, contact_info, profile_link, notes_text) ==
  [ex EXCEPT
    !.displayName = IF display_name # << >> THEN display_name ELSE @,
    !.handle = IF handle # << >> THEN handle ELSE @,
    !.contactMethod = IF contact_method # << >> THEN contact_method ELSE @,
    !.contactInfo = IF contact_info # << >> THEN contact_info ELSE @,
    !.profileLink = IF profile_link # << >> THEN profile_link ELSE @,
    !.notes = IF notes_text # << >> THEN notes_text ELSE @]

\* The patch of an existing influencer: the row with the empty fields
\* filled, before updatedAt is set.
PatchInfluencer(ex, display_name, handle, contact_method, contact_info, profile_link, notes_text) ==
  [ex EXCEPT
    !.displayName = IF normalize_text(@) = << >> /\ display_name # << >> THEN display_name ELSE @,
    !.handle = IF normalize_text(@) = << >> /\ handle # << >> THEN handle ELSE @,
    !.contactMethod = IF normalize_text(@) = << >> /\ contact_method # << >> THEN contact_method ELSE @,
    !.contactInfo = IF normalize_text(@) = << >> /\ contact_info # << >> THEN contact_info ELSE @,
    !.profileLink = IF normalize_text(@) = << >> /\ profile_link # << >> THEN profile_link ELSE @,
    !.notes = IF normalize_text(@) = << >> /\ notes_text # << >> THEN notes_text ELSE @]

\* existing: the row find_influencer_by_handle returned (0: None).
\* Result: the connection's view after the call, the row returned, and the
\* flags (patched, created).
create_or_patch_influencer(c, existing, handle, contact_raw, profile_url, notes, now) ==
  LET display_name == IF handle # << >> THEN LStripAt(handle) ELSE WEI_MING_MING_DA_REN
      profile_link == normalize_text(profile_url)
      notes_text == normalize_text(notes)
      cm0 == normalize_contact_method(contact_raw)
      phone == cm0 # << >> /\ IsPhoneShaped(cm0)
      contact_info == IF phone THEN cm0 ELSE << >>
      contact_method == IF phone THEN << >> ELSE cm0
      ex == c.influencers[existing]
      patch == PatchInfluencer(ex, display_name, handle, contact_method, contact_info,
                               profile_link, notes_text)
      patched_row == [patch EXCEPT !.updatedAt = now]
      inf_id == Len(c.influencers) + 1
      new_row == [id |-> inf_id, displayName |-> display_name, handle |-> handle,
                  avatarData |-> << >>, contactMethod |-> contact_method,
                  contactInfo |-> contact_info, notes |-> notes_text,
                  profileLink |-> profile_link, createdAt |-> now, updatedAt |-> now]
  IN  IF existing # 0
        THEN IF patch # ex
               THEN [conn |-> [c EXCEPT !.influencers[existing] = patched_row],
                     row |-> patched_row, patched |-> TRUE, created |-> FALSE]
               ELSE [conn |-> c, row |-> ex, patched |-> FALSE, created |-> FALSE]
        ELSE [conn |-> [c EXCEPT !.influencers = Append(@, new_row)],
              row |-> new_row, patched |-> FALSE, created |-> TRUE]

IMPORT_COLON == <<"i", "m", "p", "o", "r", "t", ":">>

\* f"[import:{key}]" if key else ""
build_import_tag(external_key) ==
  LET key == normalize_text(external_key)
  IN  IF key = << >> THEN << >> ELSE <<"[">> \o IMPORT_COLON \o key \o <<"]">>

find_booking_by_video_link(c, video_link) ==
  LET link == normalize_text(video_link)
  IN  IF link = << >> THEN {0}
      ELSE LimitOne({i \in 1..Len(c.bookings) : c.bookings[i].videoLink = link})

\* notes LIKE '%tag%': SQLite's LIKE ignores the case of ASCII letters
Like(notes, tag) == Contains(Lower(notes), Lower(tag))

\* the rows of the first query of find_booking
TagMatches(c, ext) ==
  {i \in 1..Len(c.bookings) :
     \/ c.bookings[i].videoLink = IMPORT_COLON \o ext
     \/ Like(c.bookings[i].notes, build_import_tag(ext))}

\* the rows of the fallback query of find_booking
TupleMatches(c, h, p, s, t) ==
  {i \in 1..Len(c.bookings) :
     /\ c.bookings[i].handle = h
     /\ c.bookings[i].postDate = p
     /\ c.bookings[i].storeId = s
     /\ c.bookings[i].sourceType = t}

\* the rows find_booking may return (0: None)
find_booking(c, video_link, handle, post_date, store_id, source_type, external_key) ==
  LET link == normalize_text(video_link)
      ext == normalize_text(external_key)
      h == normalize_text(handle)
      p == normalize_text(post_date)
      s == normalize_text(store_id)
      t == normalize_text(source_type)
      byTag == IF ext # << >> THEN TagMatches(c, ext) ELSE {}
      byLink == IF link # << >> THEN find_booking_by_video_link(c, link) \ {0} ELSE {}
  IN  IF byTag # {} THEN byTag
      ELSE IF byLink # {} THEN byLink
      ELSE IF h # << >> /\ s # << >> /\ t # << >> THEN LimitOne(TupleMatches(c, h, p, s, t))
      ELSE {0}
\* source_type if it is one of the two known types, else 预约
EffectiveSourceType(source_type) ==
  IF normalize_text(source_type) \in {YU_YUE, ZI_LAI} THEN normalize_text(source_type) ELSE YU_YUE

\* the video link a row is stored and looked up with
EffectiveVideoLink(video_link, external_key) ==
  LET ext == normalize_text(external_key)
  IN  IF ext # << >> /\ normalize_text(video_link) = << >> THEN IMPORT_COLON \o ext
      ELSE normalize_text(video_link)

\* the notes left without the tag
WithoutTag(notes, tag) == notes

\* f"{notes}\n{tag}".strip() if notes else tag
WithTag(notes, tag) == IF notes # << >> THEN Strip(notes \o <<"nl">> \o tag) ELSE tag

\* the notes a row is stored with: the tag appended when it is missing
EffectiveNotes(notes, external_key) ==
  LET tag == build_import_tag(normalize_text(external_key))
      n == normalize_text(notes)
  IN  IF tag # << >> /\ ~Contains(n, tag) THEN WithTag(n, tag) ELSE n

\* a merge that writes every incoming value that is not empty
OverwriteBooking(ex, visit_date, visit_window, service_detail, video_rights, post_date, effective_source_type, effective_video_link, budget_wan, effective_notes, tag) ==
  [ex EXCEPT
    !.notes = IF effective_notes # << >> THEN effective_notes ELSE @,
    !.visitDate = IF visit_date # << >> THEN visit_date ELSE @,
    !.visitWindow = IF visit_window # << >> THEN visit_window ELSE @,
    !.serviceDetail = IF normalize_text(service_detail) # << >>
                        THEN normalize_text(service_detail) ELSE @,
    !.videoRights = IF normalize_text(video_rights) # << >>
                      THEN normalize_text(video_rights) ELSE @,
    !.postDate = IF post_date # << >> THEN post_date ELSE @,
    !.sourceType = IF effective_source_type # << >> THEN effective_source_type ELSE @,
    !.videoLink = IF effective_video_link # << >> THEN effective_video_link ELSE @,
    !.budgetMillionVND = IF FloatPositive(budget_wan) THEN budget_wan ELSE @]

\* The updates dictionary of the allow_update_existing block: the existing
\* row with every key of the dictionary assigned.
FillBooking(ex, visit_date, visit_window, service_detail, video_rights, post_date, effective_source_type, effective_video_link, budget_wan, effective_notes, tag) ==
  [ex EXCEPT
    !.notes = IF normalize_text(@) = << >> /\ effective_notes # << >> THEN effective_notes
              ELSE IF tag # << >> /\ ~Contains(normalize_text(@), tag)
                THEN WithTag(normalize_text(@), tag)
              ELSE @,
    !.visitDate = IF normalize_text(@) = << >> /\ visit_date # << >> THEN visit_date ELSE @,
    !.visitWindow = IF normalize_text(@) = << >> /\ visit_window # << >> THEN visit_window ELSE @,
    !.serviceDetail = IF normalize_text(@) = << >> /\ normalize_text(service_detail) # << >>
                        THEN normalize_text(service_detail) ELSE @,
    !.videoRights = IF normalize_text(@) = << >> /\ normalize_text(video_rights) # << >>
                      THEN normalize_text(video_rights) ELSE @,
    !.postDate = IF normalize_text(@) = << >> /\ post_date # << >> THEN post_date ELSE @,
    !.sourceType = IF effective_source_type # << >> /\ normalize_text(@) # effective_source_type
                     THEN effective_source_type ELSE @,
    !.videoLink = IF effective_video_link # << >>
                     /\ (normalize_text(@) = << >> \/ StartsWith(normalize_text(@), IMPORT_COLON))
                    THEN effective_video_link ELSE @,
    !.budgetMillionVND = IF @ = FloatZero /\ FloatPositive(budget_wan) THEN budget_wan ELSE @]

\* whether the updates dictionary of the allow_update_existing block has a key
HasUpdates(ex, visit_date, visit_window, service_detail, video_rights, post_date, effective_source_type, effective_video_link, budget_wan, effective_notes, tag) ==
  \/ tag # << >> /\ ~Contains(normalize_text(ex.notes), tag)
  \/ normalize_text(ex.visitDate) = << >> /\ visit_date # << >>
  \/ normalize_text(ex.visitWindow) = << >> /\ visit_window # << >>
  \/ normalize_text(ex.serviceDetail) = << >> /\ normalize_text(service_detail) # << >>
  \/ normalize_text(ex.videoRights) = << >> /\ normalize_text(video_rights) # << >>
  \/ normalize_text(ex.postDate) = << >> /\ post_date # << >>
  \/ effective_source_type # << >> /\ normalize_text(ex.sourceType) # effective_source_type
  \/ /\ effective_video_link # << >>
     /\ (normalize_text(ex.videoLink) = << >> \/ StartsWith(normalize_text(ex.videoLink), IMPORT_COLON))
  \/ ex.budgetMillionVND = FloatZero /\ FloatPositive(budget_wan)
  \/ normalize_text(ex.notes) = << >> /\ effective_notes # << >>

\* a re-assignment that leaves the traffic snapshots as they are
KeepStoreName(traffic_logs, booking_id, store_name) == traffic_logs

\* UPDATE traffic_logs SET storeName = ? WHERE bookingId = ?
RestampStoreName(traffic_logs, booking_id, store_name) ==
  [i \in 1..Len(traffic_logs) |->
     IF traffic_logs[i].bookingId = booking_id
       THEN [traffic_logs[i] EXCEPT !.storeName = store_name]
       ELSE traffic_logs[i]]

\* p is the record of the keyword arguments; existing is the row
\* find_booking returned (0: None).  Result: the connection's view after
\* the call, the row returned, and the flags (created, updated).
create_or_update_booking(c, existing, p, now) ==
  LET effective_source_type == EffectiveSourceType(p.source_type)
      effective_video_link == EffectiveVideoLink(p.video_link, p.external_key)
      tag == build_import_tag(normalize_text(p.external_key))
      effective_notes == EffectiveNotes(p.notes, p.external_key)
      ex == c.bookings[existing]
      move == p.allow_update_store /\ ex.storeId # p.store_id
      moved == IF move THEN [ex EXCEPT !.storeId = p.store_id, !.storeName = p.store_name]
               ELSE ex
      traffic1 == IF move THEN RestampStoreName(c.traffic_logs, ex.id, p.store_name)
                  ELSE c.traffic_logs
      fill == /\ p.allow_update_existing
              /\ HasUpdates(ex, p.visit_date, p.visit_window, p.service_detail, p.video_rights,
                            p.post_date, effective_source_type, effective_video_link,
                            p.budget_wan, effective_notes, tag)
      filled == IF fill
                  THEN FillBooking(moved, p.visit_date, p.visit_window, p.service_detail,
                                   p.video_rights, p.post_date, effective_source_type,
                                   effective_video_link, p.budget_wan, effective_notes, tag)
                  ELSE moved
      booking_id == Len(c.bookings) + 1
      new_row == [id |-> booking_id, storeId |-> p.store_id, storeName |-> p.store_name,
                  influencerId |-> p.influencer_row.id,
                  creatorName |-> p.influencer_row.displayName,
                  handle |-> p.influencer_row.handle,
                  contactMethod |-> p.influencer_row.contactMethod,
                  contactInfo |-> p.influencer_row.contactInfo,
                  visitDate |-> p.visit_date, visitWindow |-> p.visit_window,
                  sourceType |-> effective_source_type,
                  serviceDetail |-> normalize_text(p.service_detail),
                  videoRights |-> normalize_text(p.video_rights),
                  postDate |-> p.post_date, videoLink |-> effective_video_link,
                  budgetMillionVND |-> p.budget_wan, notes |-> effective_notes,
                  createdAt |-> now]
  IN  IF existing # 0
        THEN [conn |-> [c EXCEPT !.bookings[existing] = filled, !.traffic_logs = traffic1],
              row |-> filled, created |-> FALSE, updated |-> move \/ fill]
        ELSE [conn |-> [c EXCEPT !.bookings = Append(@, new_row)],
              row |-> new_row, created |-> TRUE, updated |-> FALSE]

\* a lookup that never finds a snapshot
FindNoTraffic(c, booking_id) == {0}

\* SELECT * FROM traffic_logs WHERE bookingId = ? LIMIT 1 (0: None)
find_traffic(c, booking_id) ==
  LimitOne({i \in 1..Len(c.traffic_logs) : c.traffic_logs[i].bookingId = booking_id})

\* a maximum that is positive whatever the metrics are
AlwaysPositive(a, b) == 1

Max2(a, b) == IF a >= b THEN a ELSE b

\* an upsert that writes nothing
SkipTraffic(c, existing, booking_row, m, note, now) ==
  [conn |-> c, created |-> FALSE, updated |-> FALSE]

\* m is the record of the five metrics; existing is the row find_traffic
\* returned (0: None).  Result: the connection's view and (created, updated).
upsert_traffic_for_booking(c, existing, booking_row, m, note, now) ==
  LET ex == c.traffic_logs[existing]
      next_post_date == normalize_text(booking_row.postDate)
      next_video_link == normalize_text(booking_row.videoLink)
      same == /\ ex.views = m.views
              /\ ex.likes = m.likes
              /\ ex.comments = m.comments
              /\ ex.saves = m.saves
              /\ ex.shares = m.shares
              /\ normalize_text(ex.postDate) = next_post_date
              /\ normalize_text(ex.videoLink) = next_video_link
              /\ normalize_text(ex.note) = normalize_text(note)
      updated_row == [ex EXCEPT !.views = m.views, !.likes = m.likes,
                                !.comments = m.comments, !.saves = m.saves,
                                !.shares = m.shares, !.postDate = next_post_date,
                                !.videoLink = next_video_link, !.note = note,
                                !.capturedAt = now]
      new_row == [id |-> Len(c.traffic_logs) + 1, bookingId |-> booking_row.id,
                  influencerId |-> booking_row.influencerId,
                  influencerName |-> booking_row.creatorName,
                  storeName |-> booking_row.storeName,
                  sourceType |-> booking_row.sourceType,
                  postDate |-> booking_row.postDate,
                  videoLink |-> booking_row.videoLink,
                  views |-> m.views, likes |-> m.likes, comments |-> m.comments,
                  saves |-> m.saves, shares |-> m.shares, note |-> note,
                  capturedAt |-> now]
  IN  IF Max2(Max2(Max2(m.views, m.likes), Max2(m.comments, m.saves)), m.shares) <= 0
        THEN [conn |-> c, created |-> FALSE, updated |-> FALSE]
      ELSE IF existing # 0
        THEN IF same
               THEN [conn |-> c, created |-> FALSE, updated |-> FALSE]
               ELSE [conn |-> [c EXCEPT !.traffic_logs[existing] = updated_row],
                     created |-> FALSE, updated |-> TRUE]
      ELSE [conn |-> [c EXCEPT !.traffic_logs = Append(@, new_row)],
            created |-> TRUE, updated |-> FALSE]
(***************************************************************************)
(* Source documents of the model.                                          *)
(***************************************************************************)
ID_CELL == <<"I", "D">>
U_A == <<"w", ".">> \o TIKTOK_AT \o <<"a", "?", "x">>
U_B == <<"w", ".">> \o TIKTOK_AT \o <<"b">>
L1 == <<"v", "1">>
L2 == <<"v", "2">>
D1 == <<"2", "0", "2", "4", "/", "1", "/", "5">>
D2 == <<"6", "/", "2", "/", "2", "0", "2", "4">>
V1 == <<"1", "nian", "2", "yue", "3", "ri", " ", "p", "m">>
INF == <<"i", "n", "f">>

\* 序号, ID, -, 联系方式.., 到访时间, 视频发布日期, 视频链接
BookingHeader ==
  <<XU_HAO, ID_CELL, << >>, << >>, << >>, << >>, << >>,
    DAO_FANG_SHI_JIAN, SHI_PIN_FA_BU_RI_QI, SHI_PIN_LIAN_JIE>>

\* 序号, ID, -, 视频发布日期, 视频链接
WalkinHeader == <<XU_HAO, ID_CELL, << >>, SHI_PIN_FA_BU_RI_QI, SHI_PIN_LIAN_JIE>>

\* a data row of a booking sheet
BookingRow(seq, url, contact, price, visit, post, video, views) ==
  <<seq, url, << >>, contact, price, <<"Y">>, <<"s">>, visit, post, video, views>>

\* a data row of a walk-in sheet
WalkinRow(seq, url, post, video, note, views) ==
  <<seq, url, << >>, post, video, note, << >>, << >>, << >>, << >>, views>>

BookingRows ==
  { BookingRow(<<"1">>, U_A, <<"Z", "a", "l", "o">>, <<"1", ".", "5">>, V1, D1, L1, <<"5">>),
    BookingRow(<<"2">>, U_A, << >>, << >>, << >>, D1, L2, <<"1", ",", "2", "k">>),
    BookingRow(<<"3">>, << >>, << >>, << >>, << >>, D2, << >>, << >>),
    BookingRow(<<"4">>, U_B, << >>, << >>, << >>, << >>, L2, INF) }

WalkinRows ==
  { WalkinRow(<<"1">>, U_A, D1, << >>, <<"o", "k">>, << >>),
    WalkinRow(<<"1">>, U_A, D1, L1, <<"o", "k">>, <<"5">>) }

\* all sequences over S of length at most n
RECURSIVE SeqsUpTo(_, _)
SeqsUpTo(S, n) ==
  IF n = 0 THEN {<< >>}
  ELSE LET shorter == SeqsUpTo(S, n - 1)
       IN  shorter \cup {Append(s, x) : s \in {t \in shorter : Len(t) = n - 1}, x \in S}

\* a header row followed by at most MaxRows data rows of its layout
Docs ==
  {<<BookingHeader>> \o rows : rows \in SeqsUpTo(BookingRows, MaxRows)}
  \cup {<<WalkinHeader>> \o rows : rows \in SeqsUpTo(WalkinRows, MaxRows)}

AUTO == <<"a", "u", "t", "o">>
GID == <<"0">>

\* the parsed command lines of the model
ArgsSet ==
  [store_id : StoreIds, update_store : BOOLEAN, update_existing : BOOLEAN,
   source_type : {AUTO}, only_influencers : {FALSE}, apply : BOOLEAN, gid : {GID}]

(***************************************************************************)
(* Starting stores.                                                        *)
(***************************************************************************)
EmptyTables == [influencers |-> << >>, bookings |-> << >>, traffic_logs |-> << >>]

SeedTables ==
  [influencers |->
     <<[id |-> 1, displayName |-> <<"a">>, handle |-> <<"@", "a">>, avatarData |-> << >>,
        contactMethod |-> << >>, contactInfo |-> << >>, notes |-> <<"n">>,
        profileLink |-> << >>, createdAt |-> 0, updatedAt |-> 0]>>,
   bookings |->
     <<[id |-> 1, storeId |-> <<"s", "1">>, storeName |-> <<"A">>, influencerId |-> 1,
        creatorName |-> <<"a">>, handle |-> <<"@", "a">>, contactMethod |-> << >>,
        contactInfo |-> << >>, visitDate |-> << >>, visitWindow |-> << >>,
        sourceType |-> YU_YUE, serviceDetail |-> <<"t">>, videoRights |-> << >>,
        postDate |-> << >>, videoLink |-> L1, budgetMillionVND |-> FloatZero,
        notes |-> <<"m">>, createdAt |-> 0]>>,
   traffic_logs |->
     <<[id |-> 1, bookingId |-> 1, influencerId |-> 1, influencerName |-> <<"a">>,
        storeName |-> <<"A">>, sourceType |-> YU_YUE, postDate |-> << >>,
        videoLink |-> L1, views |-> 5, likes |-> 0, comments |-> 0, saves |-> 0,
        shares |-> 0, note |-> << >>, capturedAt |-> 0]>>]

\* [profileLink |-> whether influencers has the column, tables |-> the rows]
SeedStores ==
  { [profileLink |-> TRUE, tables |-> EmptyTables],
    [profileLink |-> TRUE, tables |-> SeedTables],
    [profileLink |-> FALSE, tables |-> SeedTables] }
(***************************************************************************)
(* The import driver.                                                      *)
(***************************************************************************)
\* lines 932-941: the five parsed metrics of an item
Metrics(item) ==
  LET raw == [views |-> item.views_raw, likes |-> item.likes_raw,
              comments |-> item.comments_raw, saves |-> item.saves_raw,
              shares |-> item.shares_raw]
  IN  [k \in DOMAIN raw |-> parse_int_metric(raw[k])]

\* lines 876-905 and 932-941: everything one loop iteration derives from
\* the extracted item alone (no store access), given its post date and its
\* visit date and window
RowRecord(item, mode, gid, post_date, visit) ==
  [handle |-> parse_tiktok_handle(item.profile_url),
   contact_raw |-> item.contact_raw,
   profile_url |-> item.profile_url,
   visit_date |-> IF mode = "walkin" THEN << >> ELSE visit.date,
   visit_window |-> IF mode = "walkin" THEN << >> ELSE visit.window,
   service_detail |-> item.service_detail,
   video_rights |-> item.video_rights,
   post_date |-> post_date,
   video_link |-> item.video_link,
   budget_wan |-> IF mode = "walkin" THEN FloatZero ELSE parse_budget_wan(item.price_raw),
   notes |-> normalize_text(item.visit_raw),
   auto_source_type |-> IF mode = "walkin" THEN ZI_LAI ELSE YU_YUE,
   external_key |-> IF mode = "walkin"
                      THEN <<"w", "a", "l", "k", "i", "n", ":">> \o normalize_text(gid)
                           \o <<":">> \o normalize_text(item.seq)
                      ELSE << >>,
   metrics |-> Metrics(item)]

\* lines 886-896: the visit date and window, the year of the post date
\* being the fallback year
WithPostDate(e, mode, gid, post_date) ==
  RowRecord(e.item, mode, gid, post_date,
            parse_visit_date_and_window(e.item.visit_raw, e.context_year,
                                        YearOr(post_date, e.context_year)))

\* line 885: the post date of the extracted record e
RowFields(e, mode, gid) ==
  WithPostDate(e, mode, gid,
               parse_post_date(e.item.post_date_raw, e.context_year, e.context_year))

\* the probe and the extraction of one document: what main reads off
\* csv_text before and during the loop
\* the fields of every record of the sequence extracted
Fields(extracted, mode, gid) ==
  [i \in 1..Len(extracted) |-> RowFields(extracted[i], mode, gid)]

Prepare(doc, gid) ==
  LET mode == probe_sheet_mode(doc)
  IN  [sheet_mode |-> mode, rows |-> Fields(extract_import_rows(doc), mode, gid)]

\* Prepare, tabulated over the documents of the model (@@ makes TLC
\* build the table once instead of evaluating Prepare at every use)
Prepared == [doc \in Docs |-> Prepare(doc, GID)] @@ << >>

VARIABLES
  db,          \* the database file: [profileLink, tables], what is committed
  conn,        \* the open connection's view of the tables (db.tables when closed)
  pc,          \* "idle", or where main is: "rows", "inf_rows"
  args,        \* the parsed command line of the current (or last) run
  csv_text,    \* the document the current (or last) run fetched
  sheet_mode,  \* the probed sheet mode of main
  items,       \* what the loop of main iterates over: the extracted records
  idx,         \* the number of extracted records the loop has consumed
  stats,       \* the seven counters
  runs,        \* the number of runs started; also the clock (utc_iso_now)
  outcome,     \* how the last run ended: "none", "ok", "raised", "exit"
  obs,         \* what the reconciler calls of the last loop iteration did
  before,      \* the database file as the current (or last) run found it
  prev         \* [args, stats, outcome] of the run before, when a run is repeated

vars == <<db, conn, pc, args, csv_text, sheet_mode, items, idx, stats, runs, outcome, obs,
          before, prev>>

ZeroStats ==
  [influencers_created |-> 0, influencers_patched |-> 0, bookings_created |-> 0,
   bookings_updated |-> 0, bookings_skipped |-> 0, traffic_created |-> 0,
   traffic_updated |-> 0]

NoObs == [step |-> "none"]

NoPrev == [outcome |-> "none"]

\* ALTER TABLE influencers ADD COLUMN profileLink: run outside of any
\* transaction, so committed at once
ensure_column(d) == [d EXCEPT !.profileLink = TRUE]

\* what the statements of a run read: the tables with the connection's own
\* uncommitted writes, with or without --apply
ViewCommitted(d, c, a) == IF a.apply THEN c ELSE d.tables
View(d, c, a) == c

\* conn.execute("ROLLBACK"): the uncommitted writes of c are dropped
RollbackKeeps(d, c) == [d EXCEPT !.tables = c]
Rollback(d, c) == d

\* conn.execute("COMMIT"): the writes of c are made durable
Commit(d, c) == [d EXCEPT !.tables = c]

\* conn.close(): what is not committed is discarded
Close(d) == d

Init ==
  /\ db \in SeedStores
  /\ conn = db.tables
  /\ pc = "idle"
  /\ args = [store_id |-> <<"s", "1">>, update_store |-> FALSE, update_existing |-> FALSE,
             source_type |-> AUTO, only_influencers |-> FALSE, apply |-> FALSE, gid |-> GID]
  /\ csv_text = << >>
  /\ sheet_mode = "booking"
  /\ items = << >>
  /\ idx = 0
  /\ stats = ZeroStats
  /\ runs = 0
  /\ outcome = "none"
  /\ obs = NoObs
  /\ before = db
  /\ prev = NoPrev

\* main up to the loop: fetch, connect, ensure_column, ensure_store, BEGIN
\* and the mode probe (lines 818-848)
Begin(doc, a) ==
  /\ pc = "idle"
  /\ runs < MaxRuns
  /\ ensure_store(a.store_id).found
  /\ db' = ensure_column(db)
  /\ conn' = db.tables
  /\ pc' = IF a.only_influencers THEN "inf_rows" ELSE "rows"
  /\ args' = a
  /\ csv_text' = doc
  /\ \E read \in {Prepared[doc]} :
       /\ sheet_mode' = read.sheet_mode
       /\ items' = read.rows
  /\ idx' = 0
  /\ stats' = ZeroStats
  /\ runs' = runs + 1
  /\ outcome' = "none"
  /\ obs' = NoObs
  /\ before' = db

\* a store id that the stores table does not hold
NO_STORE == <<"s", "0">>

\* main when the run cannot start (lines 818-827): SystemExit of line 821
\* when the file at the database path is missing, before the connection
\* is opened; or SystemExit of ensure_store, after ensure_column, when the
\* store is not found.  No row is read.
CommandExits ==
  /\ pc = "idle"
  /\ runs < MaxRuns
  /\ \E store_id \in StoreIds \cup {NO_STORE}, db_exists \in BOOLEAN :
       /\ ~db_exists \/ ~ensure_store(store_id).found
       /\ db' = IF db_exists THEN ensure_column(db) ELSE db
       /\ args' = [args EXCEPT !.store_id = store_id]
  /\ conn' = db'.tables
  /\ items' = << >>
  /\ idx' = 0
  /\ stats' = ZeroStats
  /\ runs' = runs + 1
  /\ outcome' = "exit"
  /\ obs' = NoObs
  /\ before' = db
  /\ UNCHANGED <<pc, csv_text, sheet_mode, prev>>

\* lines 898-923: the keyword arguments of create_or_update_booking
BookingArgs(f, influencer_row, a) ==
  LET store == ensure_store(a.store_id)
  IN  [store_id |-> store.id,
       store_name |-> store.name,
       influencer_row |-> influencer_row,
       visit_date |-> f.visit_date,
       visit_window |-> f.visit_window,
       service_detail |-> f.service_detail,
       video_rights |-> f.video_rights,
       post_date |-> f.post_date,
       video_link |-> f.video_link,
       budget_wan |-> f.budget_wan,
       notes |-> f.notes,
       source_type |-> IF a.source_type = AUTO THEN f.auto_source_type ELSE a.source_type,
       external_key |-> f.external_key,
       allow_update_store |-> a.update_store,
       allow_update_existing |-> a.update_existing]

MetricsRaise(m) ==
  \E k \in {"views", "likes", "comments", "saves", "shares"} : m[k].raises # ""

MetricValues(m) ==
  [views |-> m.views.value, likes |-> m.likes.value, comments |-> m.comments.value,
   saves |-> m.saves.value, shares |-> m.shares.value]

\* counters that report every resolved booking as updated
CountResolvedAsUpdated(s, r1, r2, r3) ==
  [s EXCEPT
    !.influencers_created = IF r1.created THEN @ + 1 ELSE @,
    !.influencers_patched = IF ~r1.created /\ r1.patched THEN @ + 1 ELSE @,
    !.bookings_created = IF r2.created THEN @ + 1 ELSE @,
    !.bookings_updated = IF ~r2.created THEN @ + 1 ELSE @,
    !.traffic_created = IF r3.created THEN @ + 1 ELSE @,
    !.traffic_updated = IF ~r3.created /\ r3.updated THEN @ + 1 ELSE @]

\* the counters after one loop iteration
CountRow(s, r1, r2, r3) ==
  [s EXCEPT
    !.influencers_created = IF r1.created THEN @ + 1 ELSE @,
    !.influencers_patched = IF ~r1.created /\ r1.patched THEN @ + 1 ELSE @,
    !.bookings_created = IF r2.created THEN @ + 1 ELSE @,
    !.bookings_updated = IF ~r2.created /\ r2.updated THEN @ + 1 ELSE @,
    !.bookings_skipped = IF ~r2.created /\ ~r2.updated THEN @ + 1 ELSE @,
    !.traffic_created = IF r3.created THEN @ + 1 ELSE @,
    !.traffic_updated = IF ~r3.created /\ r3.updated THEN @ + 1 ELSE @]

\* the rows find_booking may return for the keyword arguments p
FindBookingFor(c, p) ==
  find_booking(c, EffectiveVideoLink(p.video_link, p.external_key),
               normalize_text(p.influencer_row.handle), normalize_text(p.post_date),
               p.store_id, EffectiveSourceType(p.source_type),
               normalize_text(p.external_key))

\* what a loop iteration leaves in obs: the rows found, and the rows and
\* flags returned, by the reconciler calls
ObsOf(step, c, ie, r1, p, be, r2) ==
  [step |-> step,
   handle |-> r1.row.handle,
   inf_existing |-> ie,
   inf_before |-> IF ie = 0 THEN r1.row ELSE c.influencers[ie],
   inf_after |-> r1.row,
   inf_patched |-> r1.patched,
   inf_created |-> r1.created,
   external_key |-> p.external_key,
   row_link |-> normalize_text(p.video_link),
   video_link |-> EffectiveVideoLink(p.video_link, p.external_key),
   by_tag |-> IF p.external_key # << >> THEN TagMatches(r1.conn, p.external_key) ELSE {},
   by_link |-> find_booking_by_video_link(r1.conn, EffectiveVideoLink(p.video_link, p.external_key)) \ {0},
   by_tuple |-> TupleMatches(r1.conn, r1.row.handle, p.post_date, p.store_id,
                             EffectiveSourceType(p.source_type)),
   bk_existing |-> be,
   bk_before |-> IF be = 0 THEN r2.row ELSE r1.conn.bookings[be],
   bk_after |-> r2.row,
   bk_created |-> r2.created,
   bk_updated |-> r2.updated,
   bk_count_before |-> Len(c.bookings),
   bk_count_after |-> Len(r2.conn.bookings),
   allow_update_store |-> p.allow_update_store,
   allow_update_existing |-> p.allow_update_existing,
   p |-> p,
   bk_in |-> r1.conn,
   bk_out |-> r2.conn]

\* what the call of upsert_traffic_for_booking of lines 932-941 did: the
\* metrics m passed, the snapshot te found (0: None), the view c before
\* and the result r3
TrafficObs(c, te, booking_row, m, r3, now) ==
  [tr_called |-> TRUE,
   metrics |-> m,
   tr_booking |-> booking_row,
   tr_existing |-> te,
   tr_in |-> c.traffic_logs,
   tr_out |-> r3.conn.traffic_logs,
   tr_created |-> r3.created,
   tr_updated |-> r3.updated,
   now |-> now]

\* lines 876-879 and 898-924 of one iteration: the influencer and the booking of the
\* extracted record f, read and written through the view c.  The set of
\* the outcomes [ie, r1, p, be, r2] the LIMIT 1 lookups allow.
Reconcile(c, f, a, now) ==
  LET influencer ==
        { [ie |-> ie,
           r1 |-> create_or_patch_influencer(c, ie, f.handle, f.contact_raw, f.profile_url,
                                             << >>, now)] :
            ie \in find_influencer_by_handle(c, f.handle) }
      keywords ==
        { [ie |-> x.ie, r1 |-> x.r1, p |-> BookingArgs(f, x.r1.row, a)] : x \in influencer }
      found ==
        UNION { { [ie |-> x.ie, r1 |-> x.r1, p |-> x.p, be |-> be] :
                    be \in FindBookingFor(x.r1.conn, x.p) } : x \in keywords }
  IN  { [ie |-> x.ie, r1 |-> x.r1, p |-> x.p, be |-> x.be,
         r2 |-> create_or_update_booking(x.r1.conn, x.be, x.p, now)] : x \in found }

\* one iteration of the loop of lines 875-945 that completes
ProcessRow ==
  /\ pc = "rows"
  /\ idx < Len(items)
  /\ ~MetricsRaise(items[idx + 1].metrics)
  /\ \E o \in Reconcile(View(db, conn, args), items[idx + 1], args, runs) :
       \E te \in find_traffic(o.r2.conn, o.r2.row.id) :
         \E r3 \in {upsert_traffic_for_booking(o.r2.conn, te, o.r2.row,
                                                MetricValues(items[idx + 1].metrics), << >>, runs)} :
           /\ conn' = r3.conn
           /\ stats' = CountRow(stats, o.r1, o.r2, r3)
           /\ obs' = ObsOf("row", View(db, conn, args), o.ie, o.r1, o.p, o.be, o.r2)
                      @@ TrafficObs(o.r2.conn, te, o.r2.row,
                                    MetricValues(items[idx + 1].metrics), r3, runs)
                      @@ [stats_before |-> stats]
  /\ idx' = idx + 1
  /\ UNCHANGED <<db, pc, args, csv_text, sheet_mode, items, runs, outcome, before, prev>>

\* one iteration in which parse_int_metric raises (lines 932-939), after
\* the influencer and booking calls: the except and finally clauses
ProcessRowRaises ==
  /\ pc = "rows"
  /\ idx < Len(items)
  /\ MetricsRaise(items[idx + 1].metrics)
  /\ \E o \in Reconcile(View(db, conn, args), items[idx + 1], args, runs) :
       /\ db' = Close(IF args.apply THEN Rollback(db, o.r2.conn) ELSE db)
       /\ conn' = db'.tables
       /\ stats' = CountRow(stats, o.r1, o.r2, [created |-> FALSE, updated |-> FALSE])
       /\ obs' = ObsOf("raised", View(db, conn, args), o.ie, o.r1, o.p, o.be, o.r2)
                  @@ [tr_called |-> FALSE, stats_before |-> stats]
  /\ idx' = idx + 1
  /\ pc' = "idle"
  /\ outcome' = "raised"
  /\ UNCHANGED <<args, csv_text, sheet_mode, items, runs, before, prev>>

\* the loop is over: COMMIT under --apply, close, print the summary
Finish ==
  /\ pc = "rows"
  /\ idx = Len(items)
  /\ db' = Close(IF args.apply THEN Commit(db, conn) ELSE db)
  /\ conn' = db'.tables
  /\ pc' = "idle"
  /\ outcome' = "ok"
  /\ UNCHANGED <<args, csv_text, sheet_mode, items, idx, stats, runs, obs, before, prev>>

\* a run of the command on any document with any command line
Command ==
  /\ pc = "idle"
  /\ \E doc \in Docs, a \in ArgsSet : Begin(doc, a)
  /\ UNCHANGED prev

Next ==
  \/ Command
  \/ CommandExits
  \/ ProcessRow
  \/ ProcessRowRaises
  \/ Finish

Spec == Init /\ [][Next]_vars

\* the command run twice on one document: the first run of the pair
FirstCommand ==
  /\ pc = "idle"
  /\ runs = 0
  /\ \E doc \in Docs, a \in ArgsSet : Begin(doc, a)
  /\ UNCHANGED prev

\* the command run again on the same document with the same flags, with
\* or without --apply
SameCommand ==
  /\ pc = "idle"
  /\ runs > 0
  /\ \E apply \in BOOLEAN : Begin(csv_text, [args EXCEPT !.apply = apply])
  /\ prev' = [args |-> args, stats |-> stats, outcome |-> outcome]

NextRerun ==
  \/ FirstCommand
  \/ SameCommand
  \/ ProcessRow
  \/ ProcessRowRaises
  \/ Finish

SpecRerun == Init /\ [][NextRerun]_vars

(***************************************************************************)
(* create_or_patch_influencer on its own: a stored influencer @a with any  *)
(* of its fields empty, blank or set, and calls with any incoming values.  *)
(***************************************************************************)
PHONE == <<"0", "9", "0", " ", "1", "2", "3">>

StoredInfluencers ==
  [id : {1}, displayName : {<< >>, <<"a">>}, handle : {<<"@", "a">>}, avatarData : {<< >>},
   contactMethod : {<< >>, <<"z", "a", "l", "o">>}, contactInfo : {<< >>, PHONE},
   notes : {<< >>, <<" ">>, <<"n">>}, profileLink : {<< >>, <<"u">>},
   createdAt : {0}, updatedAt : {0}]

InitPatch ==
  /\ db \in {[profileLink |-> TRUE, tables |-> [EmptyTables EXCEPT !.influencers = <<row>>]] :
               row \in StoredInfluencers}
  /\ conn = db.tables
  /\ pc = "idle"
  /\ args = [store_id |-> <<"s", "1">>, update_store |-> FALSE, update_existing |-> FALSE,
             source_type |-> AUTO, only_influencers |-> TRUE, apply |-> FALSE, gid |-> GID]
  /\ csv_text = << >>
  /\ sheet_mode = "booking"
  /\ items = << >>
  /\ idx = 0
  /\ stats = ZeroStats
  /\ runs = 0
  /\ outcome = "none"
  /\ obs = NoObs
  /\ before = db
  /\ prev = NoPrev

\* lines 853-864: the handle of the row's profile URL, the lookup and the
\* call of create_or_patch_influencer with the row's contact and notes
Patch(contact_raw, profile_url, notes) ==
  /\ runs < MaxRuns
  /\ LET handle == parse_tiktok_handle(profile_url)
     IN  \E ie \in find_influencer_by_handle(conn, handle) :
           LET r1 == create_or_patch_influencer(conn, ie, handle, contact_raw,
                                                profile_url, notes, runs + 1)
           IN  /\ conn' = r1.conn
               /\ stats' = CountRow(stats, r1, [created |-> FALSE, updated |-> TRUE],
                                    [created |-> FALSE, updated |-> FALSE])
               /\ obs' = [step |-> "patch", handle |-> handle, inf_existing |-> ie,
                          inf_before |-> IF ie = 0 THEN r1.row ELSE conn.influencers[ie],
                          inf_after |-> r1.row, inf_patched |-> r1.patched,
                          inf_created |-> r1.created, notes_in |-> normalize_text(notes),
                          now |-> runs + 1]
  /\ runs' = runs + 1
  /\ UNCHANGED <<db, pc, args, csv_text, sheet_mode, items, idx, outcome, before, prev>>

NextPatch ==
  /\ pc = "idle"
  /\ \E contact_raw \in {<< >>, <<"L", "i", "n", "e">>, <<"+", "8", "4", " ", "9", "0", "1">>},
        profile_url \in {U_A, U_B},
        notes \in {<< >>, <<"x">>} :
       Patch(contact_raw, profile_url, notes)

SpecPatch == InitPatch /\ [][NextPatch]_vars

(***************************************************************************)
(* create_or_update_booking on its own: one stored booking of @a with any  *)
(* of its fields empty or set, and one call with any incoming values.      *)
(***************************************************************************)
KEY == <<"w", "a", "l", "k", "i", "n", ":", "0", ":", "1">>
P1 == <<"2", "0", "2", "4", "-", "0", "1", "-", "0", "5">>
P2 == <<"2", "0", "2", "4", "-", "0", "2", "-", "0", "6">>

\* the stored bookings: visitWindow and videoRights are set together
StoredBookings ==
  { [id |-> 1, storeId |-> <<"s", "1">>, storeName |-> <<"A">>, influencerId |-> 1,
     creatorName |-> <<"a">>, handle |-> <<"@", "a">>, contactMethod |-> << >>,
     contactInfo |-> << >>, visitDate |-> vd, visitWindow |-> wr, sourceType |-> st,
     serviceDetail |-> sd, videoRights |-> wr, postDate |-> pd, videoLink |-> vl,
     budgetMillionVND |-> bw, notes |-> nt, createdAt |-> 0] :
      vd \in {<< >>, P1}, wr \in {<< >>, <<"w">>}, st \in {YU_YUE, ZI_LAI},
      sd \in {<< >>, <<"t">>}, pd \in {<< >>, P1}, vl \in {<< >>, L1, IMPORT_COLON \o KEY},
      bw \in {FloatZero, [int |-> 2, frac |-> << >>]},
      nt \in {<< >>, <<" ">>, <<"m">>, build_import_tag(KEY)} }

\* the keyword arguments of the calls: the fields of a row are empty
\* together or set together
IncomingBookings ==
  { [store_id |-> <<"s", "1">>, store_name |-> <<"A">>,
     influencer_row |-> SeedTables.influencers[1],
     visit_date |-> IF set THEN P2 ELSE << >>,
     visit_window |-> IF set THEN <<"p", "m">> ELSE << >>,
     service_detail |-> IF set THEN <<"s">> ELSE << >>,
     video_rights |-> IF set THEN <<"Y">> ELSE << >>,
     post_date |-> IF set THEN P2 ELSE << >>,
     video_link |-> vl,
     budget_wan |-> IF set THEN [int |-> 1, frac |-> <<"5">>] ELSE FloatZero,
     notes |-> IF set THEN <<"x">> ELSE << >>,
     source_type |-> st, external_key |-> ek,
     allow_update_store |-> FALSE, allow_update_existing |-> ue] :
      set \in BOOLEAN, vl \in {<< >>, L1, L2}, st \in {YU_YUE, ZI_LAI},
      ek \in {<< >>, KEY}, ue \in BOOLEAN }

InitFill ==
  /\ db \in {[profileLink |-> TRUE,
               tables |-> [SeedTables EXCEPT !.bookings = <<row>>, !.traffic_logs = << >>]] :
               row \in StoredBookings}
  /\ conn = db.tables
  /\ pc = "idle"
  /\ args = [store_id |-> <<"s", "1">>, update_store |-> FALSE, update_existing |-> TRUE,
             source_type |-> AUTO, only_influencers |-> FALSE, apply |-> FALSE, gid |-> GID]
  /\ csv_text = << >>
  /\ sheet_mode = "booking"
  /\ items = << >>
  /\ idx = 0
  /\ stats = ZeroStats
  /\ runs = 0
  /\ outcome = "none"
  /\ obs = NoObs
  /\ before = db
  /\ prev = NoPrev

\* lines 606-663: find_booking and the merge into the row it returned, or
\* the insert of lines 665-701
Fill(p) ==
  /\ runs = 0
  /\ \E be \in FindBookingFor(conn, p) :
       \E r2 \in {create_or_update_booking(conn, be, p, runs + 1)} :
         /\ conn' = r2.conn
         /\ stats' = CountRow(stats, [created |-> FALSE, patched |-> FALSE], r2,
                              [created |-> FALSE, updated |-> FALSE])
         /\ obs' = ObsOf("fill", conn, 1,
                         [conn |-> conn, row |-> conn.influencers[1],
                          patched |-> FALSE, created |-> FALSE], p, be, r2)
                    @@ [tr_called |-> FALSE, stats_before |-> stats]
  /\ runs' = runs + 1
  /\ UNCHANGED <<db, pc, args, csv_text, sheet_mode, items, idx, outcome, before, prev>>

NextFill ==
  /\ pc = "idle"
  /\ \E p \in IncomingBookings : Fill(p)

SpecFill == InitFill /\ [][NextFill]_vars

(***************************************************************************)
(* parse_int_metric on its own: the cell is typed one character at a time  *)
(* and parsed after every character.                                       *)
(***************************************************************************)
\* the characters of a metric cell
MetricChars == {"1", "5", "9", ",", ".", "k", "M", "-"}

InitMetric ==
  /\ db = [profileLink |-> TRUE, tables |-> EmptyTables]
  /\ conn = db.tables
  /\ pc = "idle"
  /\ args = [store_id |-> <<"s", "1">>, update_store |-> FALSE, update_existing |-> FALSE,
             source_type |-> AUTO, only_influencers |-> FALSE, apply |-> FALSE, gid |-> GID]
  /\ csv_text = << >>
  /\ sheet_mode = "booking"
  /\ items = << >>
  /\ idx = 0
  /\ stats = ZeroStats
  /\ runs = 0
  /\ outcome = "none"
  /\ obs = [step |-> "metric", raw |-> << >>, result |-> parse_int_metric(<< >>)]
  /\ before = db
  /\ prev = NoPrev

\* lines 935-939: parse_int_metric applied to the cell with one more
\* character
ParseCell(c) ==
  /\ Len(obs.raw) < MaxCell
  /\ obs' = [step |-> "metric", raw |-> Append(obs.raw, c),
             result |-> parse_int_metric(Append(obs.raw, c))]
  /\ UNCHANGED <<db, conn, pc, args, csv_text, sheet_mode, items, idx, stats, runs, outcome,
                 before, prev>>

NextMetric ==
  /\ pc = "idle"
  /\ \E c \in MetricChars : ParseCell(c)

SpecMetric == InitMetric /\ [][NextMetric]_vars

(***************************************************************************)
(* detect_sheet_mode on its own: the header row grows one cell at a time   *)
(* and is classified after every cell.                                     *)
(***************************************************************************)
\* the cells of a header row: the labels, an empty cell, and a label with
\* white space inside
HeaderCells == {XU_HAO, DAO_FANG_SHI_JIAN, DAO_FANG_RI_QI, SHI_PIN_FA_BU_RI_QI, SHI_PIN_LIAN_JIE, << >>, <<"shi4", "pin", " ", "lian", "jie", "nl">>}

InitHeader ==
  /\ db = [profileLink |-> TRUE, tables |-> EmptyTables]
  /\ conn = db.tables
  /\ pc = "idle"
  /\ args = [store_id |-> <<"s", "1">>, update_store |-> FALSE, update_existing |-> FALSE,
             source_type |-> AUTO, only_influencers |-> FALSE, apply |-> FALSE, gid |-> GID]
  /\ csv_text = << >>
  /\ sheet_mode = detect_sheet_mode(<< >>)
  /\ items = << >>
  /\ idx = 0
  /\ stats = ZeroStats
  /\ runs = 0
  /\ outcome = "none"
  /\ obs = [step |-> "header", header_row |-> << >>]
  /\ before = db
  /\ prev = NoPrev

\* lines 244-251: detect_sheet_mode applied to the row with one more cell
DetectHeader(cell) ==
  /\ Len(obs.header_row) < MaxHeader
  /\ obs' = [step |-> "header", header_row |-> Append(obs.header_row, cell)]
  /\ sheet_mode' = detect_sheet_mode(Append(obs.header_row, cell))
  /\ UNCHANGED <<db, conn, pc, args, csv_text, items, idx, stats, runs, outcome, before, prev>>

NextHeader ==
  /\ pc = "idle"
  /\ \E cell \in HeaderCells : DetectHeader(cell)

SpecHeader == InitHeader /\ [][NextHeader]_vars

(***************************************************************************)
(* extract_import_rows and the mode probe of main on their own: the        *)
(* document grows one row at a time and is read after every row.           *)
(***************************************************************************)
\* a data row whose cells differ between the two column layouts; the
\* sequence number is written with white space around it
LayoutRow == <<<<" ", "7", " ">>, U_A, << >>, D1, L1, <<"o", "k">>, << >>, V1, D2, L2, <<"5">>>>

\* the rows of a document: headers whose first cell holds 序号, ID or No,
\* context rows with a date of 2023, a date of 2024 and no date, a blank
\* row, a data row, and a row whose first cell is neither empty nor a number
ExtractRows ==
  { BookingHeader,
    WalkinHeader,
    <<ID_CELL, << >>, << >>, SHI_PIN_FA_BU_RI_QI, SHI_PIN_LIAN_JIE>>,
    <<<<"N", "o">>, ID_CELL, << >>, SHI_PIN_FA_BU_RI_QI, SHI_PIN_LIAN_JIE>>,
    <<<< >>, <<"2", "1", "/", "1", "2", "/", "2", "0", "2", "3">>>>,
    <<<< >>, D1>>,
    <<<< >>, <<"x">>>>,
    << >>,
    LayoutRow,
    <<<<"7", "a">>, U_A>> }

InitExtract ==
  /\ db = [profileLink |-> TRUE, tables |-> EmptyTables]
  /\ conn = db.tables
  /\ pc = "idle"
  /\ args = [store_id |-> <<"s", "1">>, update_store |-> FALSE, update_existing |-> FALSE,
             source_type |-> AUTO, only_influencers |-> FALSE, apply |-> FALSE, gid |-> GID]
  /\ csv_text = << >>
  /\ sheet_mode = probe_sheet_mode(<< >>)
  /\ items = extract_import_rows(<< >>)
  /\ idx = 0
  /\ stats = ZeroStats
  /\ runs = 0
  /\ outcome = "none"
  /\ obs = [step |-> "extract"]
  /\ before = db
  /\ prev = NoPrev

\* lines 843-848 and 875: the probe and the extractor applied to the
\* document with one more row
ExtractRow(row) ==
  /\ Len(csv_text) < MaxDocRows
  /\ csv_text' = Append(csv_text, row)
  /\ sheet_mode' = probe_sheet_mode(Append(csv_text, row))
  /\ items' = extract_import_rows(Append(csv_text, row))
  /\ UNCHANGED <<db, conn, pc, args, idx, stats, runs, outcome, obs, before, prev>>

NextExtract ==
  /\ pc = "idle"
  /\ \E row \in ExtractRows : ExtractRow(row)

SpecExtract == InitExtract /\ [][NextExtract]_vars

(***************************************************************************)
(* main with --only-influencers: any document of header, profile,          *)
(* continuation and blank rows, imported into any starting store.          *)
(***************************************************************************)
\* 序号, ID, -, 联系方式, 价格, 视频授权, 具体服务, 到访时间, 视频发布日期,
\* 视频链接, 视频结果, 备注
ProfileHeader ==
  <<XU_HAO, ID_CELL, << >>, LIAN_XI_FANG_SHI, JIA_GE, SHI_PIN_SHOU_QUAN, JU_TI_FU_WU,
    DAO_FANG_SHI_JIAN, SHI_PIN_FA_BU_RI_QI, SHI_PIN_LIAN_JIE, SHI_PIN_JIE_GUO, BEI_ZHU>>

\* profile rows of @a (twice, with different contact and notes) and of @b,
\* two continuation rows and a blank row
ProfileRows ==
  { ProfileHeader,
    <<<<"1">>, U_A, << >>, <<"Z", "a", "l", "o">>, <<"1", ".", "5">>, << >>, << >>, << >>, D1, L1,
      << >>, <<"h", "i">>>>,
    <<<<"2">>, U_A, << >>, PHONE, << >>, <<"Y">>, << >>, << >>, << >>,
      <<"t", "i", "k", "t", "o", "k", ".", "c", "o", "m", "/", "v">>>>,
    <<<<"3">>, U_B, << >>, << >>, <<"9">>>>,
    <<<< >>, << >>, << >>, <<"L", "i", "n", "e">>, << >>, << >>, << >>, << >>, << >>, L2>>,
    <<<< >>, <<"m", "o", "r", "e">>>>,
    << >> }

InitProfiles ==
  /\ db \in SeedStores
  /\ conn = db.tables
  /\ pc = "idle"
  /\ args = [store_id |-> <<"s", "1">>, update_store |-> FALSE, update_existing |-> FALSE,
             source_type |-> AUTO, only_influencers |-> TRUE, apply |-> FALSE, gid |-> GID]
  /\ csv_text \in SeqsUpTo(ProfileRows, MaxDocRows)
  /\ sheet_mode = "booking"
  /\ items = << >>
  /\ idx = 0
  /\ stats = ZeroStats
  /\ runs = 0
  /\ outcome = "none"
  /\ obs = NoObs
  /\ before = db
  /\ prev = NoPrev

\* lines 852-864: the loop over the influencer rows; the set of its
\* outcomes [conn, stats], one for each choice of the lookups
RECURSIVE ImportProfiles(_, _, _, _)
ImportProfiles(influencer_rows, c, st, now) ==
  IF influencer_rows = << >> THEN {[conn |-> c, stats |-> st]}
  ELSE
    LET row == Head(influencer_rows)
        handle == parse_tiktok_handle(row.profile_url)
        results == {create_or_patch_influencer(c, ie, handle, row.contact_raw,
                                               row.profile_url, row.notes, now) :
                      ie \in find_influencer_by_handle(c, handle)}
    IN  UNION {ImportProfiles(Tail(influencer_rows), r.conn,
                              IF r.created
                                THEN [st EXCEPT !.influencers_created = @ + 1]
                              ELSE IF r.patched
                                THEN [st EXCEPT !.influencers_patched = @ + 1]
                              ELSE st,
                              now) : r \in results}

\* main with --only-influencers, from the fetch to return 0 (lines 818-873)
OnlyInfluencers(apply) ==
  /\ pc = "idle"
  /\ runs < MaxRuns
  /\ ensure_store(args.store_id).found
  /\ args' = [args EXCEPT !.apply = apply]
  /\ sheet_mode' = probe_sheet_mode(csv_text)
  /\ \E influencer_rows \in {extract_influencer_only_rows(csv_text)} :
       /\ items' = influencer_rows
       /\ \E r \in ImportProfiles(influencer_rows, db.tables, ZeroStats, runs + 1) :
            /\ conn' = r.conn
            /\ stats' = r.stats
            /\ db' = IF apply THEN Close(Commit(ensure_column(db), r.conn))
                     ELSE Close(ensure_column(db))
  /\ idx' = 0
  /\ runs' = runs + 1
  /\ outcome' = "ok"
  /\ obs' = [step |-> "profiles", commits |-> IF apply THEN 1 ELSE 0]
  /\ before' = db
  /\ UNCHANGED <<pc, csv_text, prev>>

NextProfiles == \E apply \in BOOLEAN : OnlyInfluencers(apply)

SpecProfiles == InitProfiles /\ [][NextProfiles]_vars

(***************************************************************************)
(* The date parsers on their own: a text grows one fragment at a time,     *)
(* the fragments separated by a space, and is parsed after every fragment. *)
(***************************************************************************)
\* the date-shaped fragments: YYYY/M/D, D/M/YYYY, YYYY年M月D, M月D, and
\* dates with both components above 12 or up to 99
DateFragments ==
  { D1, D2,
    <<"2", "0", "2", "4", "nian", "1", "yue", "2">>,
    <<"3", "yue", "4">>,
    <<"1", "3", "/", "3", "1", "/", "2", "0", "2", "4">>,
    <<"9", "9", "/", "7">> }

Fragments == DateFragments \cup {<<"p", "m">>}

InitDates ==
  /\ db = [profileLink |-> TRUE, tables |-> EmptyTables]
  /\ conn = db.tables
  /\ pc = "idle"
  /\ args = [store_id |-> <<"s", "1">>, update_store |-> FALSE, update_existing |-> FALSE,
             source_type |-> AUTO, only_influencers |-> FALSE, apply |-> FALSE, gid |-> GID]
  /\ csv_text = << >>
  /\ sheet_mode = "booking"
  /\ items = << >>
  /\ idx = 0
  /\ stats = ZeroStats
  /\ runs = 0
  /\ outcome = "none"
  /\ obs = [step |-> "dates", parts |-> << >>, context_year |-> None, visit_raw |-> << >>,
            visit |-> parse_visit_date_and_window(<< >>, None, None),
            post_date |-> parse_post_date(<< >>, None, None),
            iso |-> to_iso_date(<< >>, TRUE),
            iso_month_first |-> to_iso_date(<< >>, FALSE),
            day_month |-> parse_day_month_with_year(<< >>, 2024, TRUE)]
  /\ before = db
  /\ prev = NoPrev

\* lines 885-893: the date parsers applied to the text with one more
\* fragment, in a context year or none
ParseDates(fragment, context_year) ==
  /\ Len(obs.parts) < MaxFragments
  /\ \E visit_raw \in {Join(Append(obs.parts, fragment), <<" ">>)} :
       obs' = [step |-> "dates", parts |-> Append(obs.parts, fragment),
               context_year |-> context_year, visit_raw |-> visit_raw,
               visit |-> parse_visit_date_and_window(visit_raw, context_year, context_year),
               post_date |-> parse_post_date(visit_raw, context_year, context_year),
               iso |-> to_iso_date(visit_raw, TRUE),
               iso_month_first |-> to_iso_date(visit_raw, FALSE),
               day_month |-> parse_day_month_with_year(visit_raw, 2024, TRUE)]
  /\ UNCHANGED <<db, conn, pc, args, csv_text, sheet_mode, items, idx, stats, runs, outcome,
                 before, prev>>

NextDates ==
  /\ pc = "idle"
  /\ \E fragment \in Fragments, context_year \in {None, 2024} : ParseDates(fragment, context_year)

SpecDates == InitDates /\ [][NextDates]_vars

(***************************************************************************)
(* Properties of the driver's transaction.                                 *)
(***************************************************************************)
\* a run that has ended, and the repeated run before it
Ended == pc = "idle" /\ outcome # "none"

Repeated == Ended /\ prev.outcome # "none"

\* C1: a committing import without update flags, repeated on the same
\* document, creates no influencer, booking or traffic snapshot on the
\* second run, changes no snapshot, and leaves the row counts of the three
\* tables as the first run left them.
C1_Idempotent ==
  (/\ Repeated
   /\ outcome = "ok" /\ prev.outcome = "ok"
   /\ args.apply /\ prev.args.apply
   /\ ~args.update_store /\ ~args.update_existing)
  => /\ stats.influencers_created = 0
     /\ stats.bookings_created = 0
     /\ stats.traffic_created = 0
     /\ stats.traffic_updated = 0
     /\ Len(db.tables.influencers) = Len(before.tables.influencers)
     /\ Len(db.tables.bookings) = Len(before.tables.bookings)
     /\ Len(db.tables.traffic_logs) = Len(before.tables.traffic_logs)

\* C2: a committing run that raises leaves the three tables exactly as the
\* run found them, and the tables change only by the COMMIT of a run in
\* which every row was reconciled.
C2_AllOrNothing ==
  /\ (Ended /\ args.apply /\ outcome = "raised")
       => (db.tables = before.tables /\ conn = before.tables)
  /\ (pc = "idle" /\ db.tables # before.tables)
       => (outcome = "ok" /\ args.apply /\ idx = Len(items))

\* a committing run raised on its second row, after both rows had
\* inserted an influencer and a booking
C2_Witness ==
  /\ Ended /\ args.apply /\ outcome = "raised"
  /\ idx = 2
  /\ stats.influencers_created = 2
  /\ stats.bookings_created = 2
  /\ db.tables = before.tables

\* C3: a run without --apply leaves the database file (rows, values and
\* schema) as it found it, whether it ends normally or by an exception.
C3_DryRunNoEffect ==
  (Ended /\ ~args.apply) => db = before

\* C4: a dry run and the committing run repeated on the same document,
\* flags and store end the same way with the same seven counters.
C4_SameSummary ==
  (Repeated /\ ~prev.args.apply /\ args.apply)
  => (stats = prev.stats /\ outcome = prev.outcome)

\* a dry run of two rows with the same handle, started without that
\* influencer, counted one created influencer, and so did the committing
\* run after it
C4_Witness ==
  /\ Repeated /\ ~prev.args.apply /\ args.apply
  /\ outcome = "ok" /\ prev.outcome = "ok"
  /\ idx = 2
  /\ before.tables.influencers = << >>
  /\ prev.stats.influencers_created = 1
  /\ stats.influencers_created = 1
  /\ obs.inf_existing # 0

(***************************************************************************)
(* Properties of the reconcilers.                                          *)
(***************************************************************************)
\* the fields create_or_patch_influencer may fill
PatchFields == {"displayName", "handle", "contactMethod", "contactInfo", "profileLink", "notes"}

\* C5: for an influencer found by handle, create_or_patch_influencer
\* changes no field that holds more than white space and no field other
\* than the six it may fill and updatedAt; and when it fills none, the row
\* stays as stored, updatedAt included, and the call reports
\* (patched = FALSE, created = FALSE).
C5_NeverClobbers ==
  (obs.step = "patch" /\ obs.inf_existing # 0) =>
    LET b == obs.inf_before
        a == obs.inf_after
        written == {k \in PatchFields : a[k] # b[k]}
    IN  /\ \A k \in PatchFields : normalize_text(b[k]) # << >> => a[k] = b[k]
        /\ \A k \in {"id", "avatarData", "createdAt"} : a[k] = b[k]
        /\ a = conn.influencers[obs.inf_existing]
        /\ ~obs.inf_created
        /\ obs.inf_patched <=> written # {}
        /\ written = {} => a = b
        /\ written # {} => a.updatedAt = obs.now

\* a found influencer with notes and a contact method of its own was
\* offered other notes and kept both fields, while its empty profile
\* link was filled
C5_Witness ==
  /\ obs.step = "patch" /\ obs.inf_existing # 0
  /\ obs.inf_before.notes = <<"n">>
  /\ obs.notes_in = <<"x">>
  /\ obs.inf_after.notes = <<"n">>
  /\ obs.inf_before.contactMethod # << >>
  /\ obs.inf_after.contactMethod = obs.inf_before.contactMethod
  /\ obs.inf_before.profileLink = << >>
  /\ obs.inf_after.profileLink # << >>
  /\ obs.inf_patched

\* no two rows of the influencers table t share a non-empty handle
UniqueHandles(t) ==
  \A i, j \in 1..Len(t) : (i # j /\ t[i].handle # << >>) => t[i].handle # t[j].handle

\* every row of t is a row of u with the same handle
SameHandles(t, u) ==
  /\ Len(t) <= Len(u)
  /\ \A i \in 1..Len(t) : u[i].handle = t[i].handle

\* C6: no two influencers ever share a non-empty handle, in the database
\* file or in a run's view of it; no step changes or blanks the handle of
\* a stored influencer, or of one the run sees; and a row with a non-empty
\* handle inserts an influencer only if no influencer has that handle.
C6_HandleKey ==
  /\ [](UniqueHandles(db.tables.influencers) /\ UniqueHandles(conn.influencers))
  /\ [][/\ SameHandles(db.tables.influencers, db'.tables.influencers)
        /\ (pc = "rows" /\ pc' = "rows")
             => SameHandles(conn.influencers, conn'.influencers)
        /\ (pc = "rows" /\ idx' # idx /\ obs'.inf_created /\ obs'.handle # << >>)
             => \A i \in 1..Len(conn.influencers) : conn.influencers[i].handle # obs'.handle
       ]_vars

\* a row whose handle is stored was matched to its influencer while the
\* run's view holds two influencers
C6_Witness ==
  /\ obs.step = "row"
  /\ obs.handle # << >>
  /\ obs.inf_existing # 0
  /\ ~obs.inf_created
  /\ Len(conn.influencers) >= 2

\* the import tags of the documents of the model
ImportTags ==
  UNION {{build_import_tag(Prepared[doc].rows[i].external_key) :
            i \in 1..Len(Prepared[doc].rows)} : doc \in Docs} \ {<< >>}

\* C7: no two stored bookings share a non-empty video link, and no two
\* carry the same import tag in their notes.
C7_OneBookingPerKey ==
  \A i, j \in 1..Len(db.tables.bookings) :
    i # j =>
      LET a == db.tables.bookings[i]
          b == db.tables.bookings[j]
      IN  /\ a.videoLink # << >> => a.videoLink # b.videoLink
          /\ \A tag \in ImportTags : ~(Contains(a.notes, tag) /\ Contains(b.notes, tag))

\* the rows the three stages of the resolution order name for the last
\* row: tag or placeholder, else video link, else the tuple
Resolved ==
  IF obs.external_key # << >> /\ obs.by_tag # {} THEN obs.by_tag
  ELSE IF obs.row_link # << >> /\ obs.by_link # {} THEN obs.by_link
  ELSE obs.by_tuple

\* C8: find_booking returns a booking of the first stage that matches
\* (tag or placeholder, else video link, else the tuple of handle, post
\* date, store and source type), and when no stage matches it returns none
\* and exactly one booking is inserted.
C8_Priority ==
  obs.step # "none" =>
    /\ Resolved # {} => obs.bk_existing \in Resolved
    /\ Resolved = {} => /\ obs.bk_existing = 0
                        /\ obs.bk_created
                        /\ obs.bk_count_after = obs.bk_count_before + 1

\* C9: a row with a non-empty video link that no stored booking has, and
\* that matches no tag, is inserted as a new booking.
C9_FallbackOnlyWithoutLink ==
  (/\ obs.step # "none"
   /\ obs.row_link # << >>
   /\ obs.by_link = {}
   /\ obs.by_tag = {})
  => obs.bk_created

\* the last row carried a key, resolved to a stored booking, and that
\* booking's notes did not contain the key's tag
TagMissing ==
  /\ obs.step # "none"
  /\ obs.external_key # << >>
  /\ obs.bk_existing # 0
  /\ ~Contains(normalize_text(obs.bk_before.notes), build_import_tag(obs.external_key))

\* C10 as stated: the tag is appended and the booking reported updated,
\* with or without allow_update_existing.
C10_TagAlways ==
  TagMissing =>
    /\ Contains(obs.bk_after.notes, build_import_tag(obs.external_key))
    /\ obs.bk_updated

\* C10: with allow_update_existing the tag is appended to the stored notes
\* and the booking is reported updated; without it the stored notes stay
\* as they are.
C10_TagWhenFilling ==
  TagMissing =>
    IF obs.allow_update_existing
      THEN /\ Contains(obs.bk_after.notes, build_import_tag(obs.external_key))
           /\ obs.bk_updated
           /\ StartsWith(obs.bk_after.notes, normalize_text(obs.bk_before.notes))
      ELSE obs.bk_after.notes = obs.bk_before.notes

\* a stored booking with notes of its own was resolved by a row with a
\* key, under allow_update_existing, and got the tag appended
C10_Witness ==
  /\ TagMissing
  /\ obs.allow_update_existing
  /\ normalize_text(obs.bk_before.notes) # << >>
  /\ obs.bk_after.notes # obs.bk_before.notes
  /\ Contains(obs.bk_after.notes, build_import_tag(obs.external_key))
(***************************************************************************)
(* Properties of the booking merge.                                        *)
(***************************************************************************)
\* the last row resolved to a stored booking
ResolvedExisting == obs.step # "none" /\ obs.bk_existing # 0

\* the last row needs no import tag: it has no external key, or the stored
\* notes already hold the tag of its key
NoTagNeeded ==
  \/ obs.external_key = << >>
  \/ Contains(normalize_text(obs.bk_before.notes), build_import_tag(obs.external_key))

\* C11: with both update flags false and no import tag needed, a row that
\* resolves to a stored booking leaves bookings and traffic_logs as
\* create_or_update_booking found them, the call returns
\* (created = FALSE, updated = FALSE), and of the three booking counters
\* only bookings_skipped is incremented, by one.
C11_NoOpDuplicate ==
  (/\ ResolvedExisting
   /\ ~obs.allow_update_store /\ ~obs.allow_update_existing
   /\ NoTagNeeded)
  => /\ obs.bk_out.bookings = obs.bk_in.bookings
     /\ obs.bk_out.traffic_logs = obs.bk_in.traffic_logs
     /\ obs.bk_out.influencers = obs.bk_in.influencers
     /\ obs.bk_after = obs.bk_before
     /\ ~obs.bk_created /\ ~obs.bk_updated
     /\ stats.bookings_skipped = obs.stats_before.bookings_skipped + 1
     /\ stats.bookings_created = obs.stats_before.bookings_created
     /\ stats.bookings_updated = obs.stats_before.bookings_updated

\* a row for another store, with a visit date the stored booking lacks,
\* resolved to that booking without flags and was skipped
C11_Witness ==
  /\ ResolvedExisting
  /\ ~obs.allow_update_store /\ ~obs.allow_update_existing
  /\ NoTagNeeded
  /\ obs.p.store_id # obs.bk_before.storeId
  /\ obs.p.visit_date # << >> /\ obs.bk_before.visitDate = << >>
  /\ stats.bookings_skipped = obs.stats_before.bookings_skipped + 1
\* the fields of a booking the merge may fill when they are empty
FillFields == {"visitDate", "visitWindow", "serviceDetail", "videoRights", "postDate"}

SameStores(t, u) ==
  \A i \in 1..Len(t) : u[i].storeId = t[i].storeId /\ u[i].storeName = t[i].storeName

\* C13: the storeId and storeName of a resolved stored booking change only
\* when allow_update_store is set and the stored storeId differs from the
\* target store; then the booking gets the target store id and name, every
\* traffic snapshot of that booking gets the target store name, no other
\* snapshot changes, and the row is reported updated; and a run without
\* --update-store leaves the store columns of every stored booking as
\* they were.
C13_StoreReassignment ==
  /\ ResolvedExisting =>
       LET b == obs.bk_before
           a == obs.bk_after
           move == obs.allow_update_store /\ b.storeId # obs.p.store_id
           tin == obs.bk_in.traffic_logs
           tout == obs.bk_out.traffic_logs
       IN  /\ (a.storeId # b.storeId \/ a.storeName # b.storeName) => move
           /\ move => /\ a.storeId = obs.p.store_id
                      /\ a.storeName = obs.p.store_name
                      /\ obs.bk_updated
           /\ Len(tout) = Len(tin)
           /\ \A i \in 1..Len(tin) :
                IF move /\ tin[i].bookingId = b.id
                  THEN tout[i] = [tin[i] EXCEPT !.storeName = obs.p.store_name]
                  ELSE tout[i] = tin[i]
           /\ \A i \in 1..Len(obs.bk_in.bookings) :
                i # obs.bk_existing => obs.bk_out.bookings[i] = obs.bk_in.bookings[i]
  /\ (pc = "idle" /\ ~args.update_store)
       => /\ SameStores(before.tables.bookings, db.tables.bookings)
          /\ SameStores(before.tables.bookings, conn.bookings)
  /\ (pc = "rows" /\ ~args.update_store) => SameStores(before.tables.bookings, conn.bookings)

\* a booking of store s1 with a snapshot stamped A was resolved by a run
\* for store s2 under --update-store: booking and snapshot now name B
C13_Witness ==
  /\ ResolvedExisting
  /\ obs.allow_update_store
  /\ obs.bk_before.storeId = <<"s", "1">>
  /\ obs.bk_after.storeId = <<"s", "2">>
  /\ obs.bk_after.storeName = <<"B">>
  /\ \E i \in 1..Len(obs.bk_in.traffic_logs) :
       /\ obs.bk_in.traffic_logs[i].bookingId = obs.bk_before.id
       /\ obs.bk_in.traffic_logs[i].storeName = <<"A">>
       /\ obs.bk_out.traffic_logs[i].storeName = <<"B">>
  /\ obs.bk_updated
(***************************************************************************)
(* Properties of the traffic merge.                                        *)
(***************************************************************************)
MetricNames == {"views", "likes", "comments", "saves", "shares"}

\* the last row reached upsert_traffic_for_booking
TrafficCalled == obs.step # "none" /\ obs.tr_called

\* no snapshot of the table t has all five metrics equal to zero
NoZeroSnapshot(t) == \A i \in 1..Len(t) : \E k \in MetricNames : t[i][k] # 0

\* C14: when the five metrics of a row are all 0, the call leaves
\* traffic_logs as it found it and neither traffic counter is incremented;
\* and no snapshot, stored or seen by a run, has all five metrics zero.
C14_SkipAllZero ==
  /\ (TrafficCalled /\ \A k \in MetricNames : obs.metrics[k] = 0)
       => /\ obs.tr_out = obs.tr_in
          /\ ~obs.tr_created /\ ~obs.tr_updated
          /\ stats.traffic_created = obs.stats_before.traffic_created
          /\ stats.traffic_updated = obs.stats_before.traffic_updated
  /\ NoZeroSnapshot(db.tables.traffic_logs)
  /\ NoZeroSnapshot(conn.traffic_logs)

\* a row without metrics resolved to a booking that has a snapshot with
\* views, and the snapshot stayed as it was
C14_Witness ==
  /\ TrafficCalled
  /\ \A k \in MetricNames : obs.metrics[k] = 0
  /\ obs.tr_existing # 0
  /\ obs.tr_in[obs.tr_existing].views > 0
  /\ obs.tr_out = obs.tr_in
\* no two snapshots of the table t belong to the same booking
OneSnapshotPerBooking(t) ==
  \A i, j \in 1..Len(t) : i # j => t[i].bookingId # t[j].bookingId

\* C15: no booking ever has two traffic snapshots, in the database file or
\* in a run's view of it; a row inserts at most one snapshot; and the
\* snapshot a row inserts or updates carries the id of the booking that
\* was resolved or created for that row.
C15_OneSnapshotPerBooking ==
  /\ OneSnapshotPerBooking(db.tables.traffic_logs)
  /\ OneSnapshotPerBooking(conn.traffic_logs)
  /\ TrafficCalled =>
       /\ obs.tr_booking = obs.bk_after
       /\ Len(obs.tr_out) = Len(obs.tr_in) + (IF obs.tr_created THEN 1 ELSE 0)
       /\ obs.tr_created => obs.tr_out[Len(obs.tr_out)].bookingId = obs.bk_after.id
       /\ obs.tr_updated => /\ obs.tr_existing # 0
                            /\ obs.tr_out[obs.tr_existing].bookingId = obs.bk_after.id
       /\ \A i \in 1..Len(obs.tr_in) :
            obs.tr_out[i] # obs.tr_in[i] => (obs.tr_updated /\ i = obs.tr_existing)

\* the snapshot of a resolved booking was updated in place while the
\* table holds a second snapshot, of another booking
C15_Witness ==
  /\ TrafficCalled
  /\ obs.tr_existing # 0
  /\ obs.tr_updated
  /\ Len(obs.tr_out) = Len(obs.tr_in)
  /\ Len(obs.tr_out) >= 2
  /\ obs.tr_out[obs.tr_existing].bookingId = obs.bk_after.id
\* the eight values of the snapshot ex equal the incoming ones of the last
\* row: the five metrics, the booking's post date and video link, the note
SameSnapshot(ex) ==
  /\ \A k \in MetricNames : ex[k] = obs.metrics[k]
  /\ normalize_text(ex.postDate) = normalize_text(obs.tr_booking.postDate)
  /\ normalize_text(ex.videoLink) = normalize_text(obs.tr_booking.videoLink)
  /\ normalize_text(ex.note) = << >>

\* the snapshot ex with the eight incoming values and a new capturedAt
Overwritten(ex) ==
  [ex EXCEPT !.views = obs.metrics.views, !.likes = obs.metrics.likes,
             !.comments = obs.metrics.comments, !.saves = obs.metrics.saves,
             !.shares = obs.metrics.shares,
             !.postDate = normalize_text(obs.tr_booking.postDate),
             !.videoLink = normalize_text(obs.tr_booking.videoLink),
             !.note = << >>, !.capturedAt = obs.now]

SomeMetricPositive == \E k \in MetricNames : obs.metrics[k] > 0

\* the three outcomes of the merge for the snapshot found (0: none)
MergeNothing ==
  obs.tr_out = obs.tr_in /\ ~obs.tr_created /\ ~obs.tr_updated

MergeUpdate ==
  /\ obs.tr_out = [obs.tr_in EXCEPT ![obs.tr_existing] = Overwritten(@)]
  /\ ~obs.tr_created /\ obs.tr_updated

MergeInsert ==
  /\ Len(obs.tr_out) = Len(obs.tr_in) + 1
  /\ SubSeq(obs.tr_out, 1, Len(obs.tr_in)) = obs.tr_in
  /\ obs.tr_out[Len(obs.tr_out)].bookingId = obs.tr_booking.id
  /\ \A k \in MetricNames : obs.tr_out[Len(obs.tr_out)][k] = obs.metrics[k]
  /\ obs.tr_created /\ ~obs.tr_updated

\* C16 as stated: a snapshot with the eight values equal is left alone, a
\* snapshot with any of them different is overwritten and re-stamped, and
\* without a snapshot a row with a positive metric inserts one.
C16_MergeAsStated ==
  TrafficCalled =>
    IF obs.tr_existing # 0
      THEN IF SameSnapshot(obs.tr_in[obs.tr_existing]) THEN MergeNothing ELSE MergeUpdate
      ELSE SomeMetricPositive => MergeInsert

\* C16: a row none of whose metrics is positive writes nothing; otherwise
\* a snapshot with the eight values equal is left alone (capturedAt
\* included), a snapshot with any of them different gets all eight
\* overwritten and capturedAt re-stamped, and without a snapshot exactly
\* one is inserted.
C16_MergeWhenPositive ==
  TrafficCalled =>
    IF ~SomeMetricPositive THEN MergeNothing
    ELSE IF obs.tr_existing = 0 THEN MergeInsert
    ELSE IF SameSnapshot(obs.tr_in[obs.tr_existing]) THEN MergeNothing
    ELSE MergeUpdate

\* a snapshot with the row's metrics but without the booking's post date
\* was overwritten and re-stamped
C16_Witness ==
  /\ TrafficCalled
  /\ SomeMetricPositive
  /\ obs.tr_existing # 0
  /\ obs.tr_in[obs.tr_existing].views = obs.metrics.views
  /\ obs.tr_in[obs.tr_existing].postDate # normalize_text(obs.tr_booking.postDate)
  /\ MergeUpdate
  /\ obs.tr_out[obs.tr_existing].capturedAt # obs.tr_in[obs.tr_existing].capturedAt
(***************************************************************************)
(* Properties of the error handling.                                       *)
(***************************************************************************)
\* C17: a run that exits because the store is not found, or because the
\* database file is missing, has read no row and leaves the database file
\* as it found it: the rows of the three tables and the schema.
C17_ExitNoEffect ==
  (Ended /\ outcome = "exit") => (db = before /\ idx = 0 /\ items = << >>)
\* C18: no metric cell of an extracted record makes parse_int_metric
\* raise, and no run ends by an exception.
C18_NormalizersNeverRaise ==
  /\ \A i \in 1..Len(items) : ~MetricsRaise(items[i].metrics)
  /\ outcome # "raised"
(***************************************************************************)
(* Properties of the normalizers.                                          *)
(***************************************************************************)
\* the cell is a number without suffix, digits with or without a fraction
\* after a dot or a comma: with a k appended it is a k-form
PlainNumber(raw) == MatchSuffixed(raw \o <<"k">>, "k")

\* C19: the result is never negative; a cell of digits, with or without a
\* fraction after a dot or after a comma, parses to its value rounded to
\* the nearest integer; with a trailing k or m (any case) to the value
\* times 1,000 or 1,000,000, rounded.
C19_RoundedNonNegative ==
  obs.step = "metric" =>
    LET k == MatchSuffixed(Lower(obs.raw), "k")
        m == MatchSuffixed(Lower(obs.raw), "m")
        plain == PlainNumber(obs.raw)
    IN  /\ obs.result.raises = ""
        /\ obs.result.value >= 0
        /\ k.ok => obs.result.value = RoundScaled(k.ip, k.fp, 1000)
        /\ m.ok => obs.result.value = RoundScaled(m.ip, m.fp, 1000000)
        /\ plain.ok => obs.result.value = RoundScaled(plain.ip, plain.fp, 1)

\* some cell of the classified header row contains the label
HasLabel(label) ==
  \E i \in 1..Len(obs.header_row) : Contains(normalize_header_cell(obs.header_row[i]), label)

\* C20 as stated: the mode is walkin exactly when the header has a
\* visit-date label, no visit-time label, and both a post-date and a
\* video-link label.
C20_WalkinAsStated ==
  obs.step = "header" =>
    (sheet_mode = "walkin" <=>
       /\ HasLabel(DAO_FANG_RI_QI)
       /\ ~HasLabel(DAO_FANG_SHI_JIAN)
       /\ HasLabel(SHI_PIN_FA_BU_RI_QI)
       /\ HasLabel(SHI_PIN_LIAN_JIE))

\* C20 amended: the mode is walkin exactly when the header has neither a
\* visit-time nor a visit-date label and has both a post-date and a
\* video-link label; every other header is booking, so a visit-time label
\* anywhere forces booking.
C20_WalkinWithoutVisitLabels ==
  obs.step = "header" =>
    /\ sheet_mode \in {"walkin", "booking"}
    /\ sheet_mode = "walkin" <=>
         /\ ~HasLabel(DAO_FANG_RI_QI)
         /\ ~HasLabel(DAO_FANG_SHI_JIAN)
         /\ HasLabel(SHI_PIN_FA_BU_RI_QI)
         /\ HasLabel(SHI_PIN_LIAN_JIE)
    /\ HasLabel(DAO_FANG_SHI_JIAN) => sheet_mode = "booking"

\* a header with the post-date and video-link labels, the latter written
\* with white space inside, is classified walkin
C20_Witness ==
  /\ obs.step = "header"
  /\ sheet_mode = "walkin"
  /\ HasLabel(SHI_PIN_FA_BU_RI_QI)
  /\ \E i \in 1..Len(obs.header_row) : obs.header_row[i] # normalize_header_cell(obs.header_row[i])
(***************************************************************************)
(* Properties of the extractors.                                           *)
(***************************************************************************)
\* the first and second cell of row i of the document, trimmed
FirstCell(i) == Strip(PadRow(csv_text[i])[1])
SecondCell(i) == Strip(PadRow(csv_text[i])[2])

\* the rows whose first cell consists only of digits
DataRows == {i \in 1..Len(csv_text) : FirstCell(i) # << >> /\ \A j \in 1..Len(FirstCell(i)) : FirstCell(i)[j] \in Digits}

\* the k-th of them in document order
DataRow(k) == CHOOSE i \in DataRows : Cardinality({j \in DataRows : j < i}) = k - 1

\* the rows before row i with an empty first cell and a full date in the second
YearRows(i) == {j \in 1..(i - 1) : FirstCell(j) = << >> /\ to_iso_date(SecondCell(j), TRUE) # << >>}

\* the year of the most recent of them, or None
YearBefore(i) ==
  IF YearRows(i) = {} THEN None
  ELSE LET j == CHOOSE x \in YearRows(i) : \A y \in YearRows(i) : y <= x
       IN  IntOf(SubSeq(to_iso_date(SecondCell(j), TRUE), 1, 4))

\* C21: the extractor yields one record per row whose trimmed first cell
\* is all digits and none for any other row, in document order, each with
\* the year of the most recent preceding context row that carries a full
\* date, or None when there is none.
C21_ExtractionFold ==
  obs.step = "extract" =>
    /\ Len(items) = Cardinality(DataRows)
    /\ \A k \in 1..Len(items) :
         /\ items[k].item.seq = FirstCell(DataRow(k))
         /\ items[k].item.profile_url = PadRow(csv_text[DataRow(k)])[2]
         /\ items[k].context_year = YearBefore(DataRow(k))

\* a data row after a dated context row and a context row without a date
C21_Witness ==
  /\ obs.step = "extract"
  /\ Len(csv_text) = 3
  /\ FirstCell(1) = << >> /\ to_iso_date(SecondCell(1), TRUE) # << >>
  /\ FirstCell(2) = << >> /\ SecondCell(2) # << >> /\ to_iso_date(SecondCell(2), TRUE) = << >>
  /\ Len(items) = 1
  /\ items[1].context_year = 2023
\* the document has a header row: only its first row can be one
HeaderFirst ==
  /\ Len(csv_text) >= 1
  /\ \/ Contains(FirstCell(1), <<"I", "D">>)
     \/ Contains(FirstCell(1), XU_HAO)
     \/ Contains(FirstCell(1), LIAN_JIE)

\* the column positions in force, and the rows read with them
Layout == IF HeaderFirst THEN detect_columns(PadRow(csv_text[1])) ELSE FallbackCols
Body == {i \in 1..Len(csv_text) : i > 1 \/ ~HeaderFirst}

\* the trimmed cell of row i at a 0-based column, "" when there is no column
CellOf(i, col) == IF col = None THEN << >> ELSE Strip(PadRow(csv_text[i])[col + 1])

\* the profile-URL rows, and those that are the first of their URL
ProfileStarts == {i \in Body : Contains(CellOf(i, Layout.id), TIKTOK_AT)}
FirstStarts == {i \in ProfileStarts : \A j \in ProfileStarts : j < i => CellOf(j, Layout.id) # CellOf(i, Layout.id)}
FirstStart(k) == CHOOSE i \in FirstStarts : Cardinality({j \in FirstStarts : j < i}) = k - 1

\* the rows after profile row i up to the next profile row or the end
Following(i) == {r \in Body : r > i /\ \A j \in ProfileStarts : j > i => r < j}

\* the texts of the rows i..n that follow profile row p, in order
RECURSIVE TextsFrom(_, _, _)
TextsFrom(p, i, n) ==
  IF i > n THEN << >>
  ELSE (IF i \in Following(p) /\ ExtraOf(PadRow(csv_text[i])) # << >>
          THEN <<ExtraOf(PadRow(csv_text[i]))>> ELSE << >>)
       \o TextsFrom(p, i + 1, n)

\* C22: one record per distinct profile URL in order of first occurrence,
\* built from the first occurrence: its URL, its contact, and as notes the
\* note columns of that row followed by the text of every row up to the
\* next profile-URL row or the end of input, and of no other row.
C22_FirstOccurrenceWins ==
  obs.step = "profiles" =>
    /\ Len(items) = Cardinality(FirstStarts)
    /\ \A k \in 1..Len(items) :
         LET p == FirstStart(k)
         IN  /\ items[k].profile_url = CellOf(p, Layout.id)
             /\ items[k].contact_raw = CellOf(p, Layout.contact)
             /\ items[k].notes =
                  Strip(Join(NoteParts(Layout, PadRow(csv_text[p]))
                             \o TextsFrom(p, 1, Len(csv_text)), <<"nl">>))

\* a URL that occurs twice with different contacts, a continuation row in
\* between, and one record out
C22_Witness ==
  /\ obs.step = "profiles"
  /\ Len(csv_text) = 3
  /\ ProfileStarts = {1, 3}
  /\ CellOf(1, Layout.id) = CellOf(3, Layout.id)
  /\ CellOf(1, Layout.contact) # CellOf(3, Layout.contact)
  /\ ExtraOf(PadRow(csv_text[2])) # << >>
  /\ Len(items) = 1

\* C23: the notes of a record contain neither the video-link cell nor the
\* contact cell of its profile row or of any row that follows it up to the
\* next profile row.
C23_NotesExcludeLinkAndContact ==
  obs.step = "profiles" =>
    \A k \in 1..Len(items) :
      \A r \in {FirstStart(k)} \cup Following(FirstStart(k)) :
        /\ CellOf(r, Layout.video) # << >> => ~Contains(items[k].notes, CellOf(r, Layout.video))
        /\ CellOf(r, Layout.contact) # << >> => ~Contains(items[k].notes, CellOf(r, Layout.contact))
(***************************************************************************)
(* Properties of the profile-only run.                                     *)
(***************************************************************************)
InfluencerFields == {"displayName", "handle", "avatarData", "contactMethod", "contactInfo", "notes", "profileLink", "createdAt"}

\* the influencers of u are those of t, each with nothing but empty fields
\* filled, followed by created ones
OnlyCreatedOrFilled(t, u) ==
  /\ Len(u.influencers) >= Len(t.influencers)
  /\ \A i \in 1..Len(t.influencers) :
       /\ u.influencers[i].id = t.influencers[i].id
       /\ \A f \in InfluencerFields :
            \/ u.influencers[i][f] = t.influencers[i][f]
            \/ f # "createdAt" /\ f # "avatarData" /\ Strip(t.influencers[i][f]) = << >>

\* C25: a run with --only-influencers leaves bookings and traffic_logs as
\* they were, changes the influencers table only by creating rows or
\* filling empty fields (its columns stay as they were), commits once and
\* all it wrote when committing, and commits nothing in a dry run.
C25_ProfilesOnly ==
  obs.step = "profiles" =>
    /\ db.profileLink = before.profileLink
    /\ conn.bookings = before.tables.bookings
    /\ conn.traffic_logs = before.tables.traffic_logs
    /\ db.tables.bookings = before.tables.bookings
    /\ db.tables.traffic_logs = before.tables.traffic_logs
    /\ OnlyCreatedOrFilled(before.tables, conn)
    /\ args.apply => obs.commits = 1 /\ db.tables = conn
    /\ ~args.apply => obs.commits = 0 /\ db.tables = before.tables
(***************************************************************************)
(* Properties of the date parsers.                                         *)
(***************************************************************************)
\* the date-shaped fragments of the text, and those still in the window
DatesTyped == {i \in 1..Len(obs.parts) : obs.parts[i] \in DateFragments}
DatesKept == {i \in DatesTyped : Contains(obs.visit.window, obs.parts[i])}

\* C24: when a date is detected in a text whose date-shaped substrings all
\* differ in shape, exactly one of them is missing from the window and the
\* others remain; when no date is detected the window is the trimmed text.
C24_StripsOneDate ==
  obs.step = "dates" =>
    /\ obs.visit.date = << >> /\ obs.visit_raw # << >> => obs.visit.window = Strip(obs.visit_raw)
    /\ (/\ obs.visit.date # << >>
        /\ \A i, j \in DatesTyped : i # j => obs.parts[i] # obs.parts[j])
         => Cardinality(DatesKept) = Cardinality(DatesTyped) - 1

\* YYYY-MM-DD with the month in 1..12 and the day in 1..31
ValidDate(s) ==
  /\ Len(s) = 10
  /\ \A i \in {1, 2, 3, 4, 6, 7, 9, 10} : s[i] \in Digits
  /\ s[5] = "-" /\ s[8] = "-"
  /\ IntOf(SubSeq(s, 6, 7)) \in 1..12
  /\ IntOf(SubSeq(s, 9, 10)) \in 1..31

\* C27: every result of to_iso_date, parse_day_month_with_year,
\* parse_post_date and the date of parse_visit_date_and_window is empty or
\* a valid calendar date.
C27_DatesInRange ==
  obs.step = "dates" =>
    \A s \in {obs.iso, obs.iso_month_first, obs.day_month, obs.post_date, obs.visit.date} :
      s = << >> \/ ValidDate(s)
(***************************************************************************)
(* Properties of the driver's sheet mode.                                  *)
(***************************************************************************)
\* record k was read with the walk-in column layout: its post date and
\* video link are cells 3 and 4 of its row
ReadAsWalkin(k) ==
  /\ items[k].item.post_date_raw = PadRow(csv_text[DataRow(k)])[4]
  /\ items[k].item.video_link = PadRow(csv_text[DataRow(k)])[5]

\* C26: the driver's sheet mode is walkin if and only if the record was
\* extracted with the walk-in column layout, for every record of every
\* document.
C26_SameModeAsExtractor ==
  obs.step = "extract" =>
    \A k \in 1..Len(items) : sheet_mode = "walkin" <=> ReadAsWalkin(k)
(***************************************************************************)
(* Properties of the denormalized copies.                                  *)
(***************************************************************************)
\* every snapshot of t carries the store name, source type, post date and
\* video link of its booking
CopiesConsistent(t) ==
  \A i \in 1..Len(t.traffic_logs) :
    LET log == t.traffic_logs[i]
        booking == t.bookings[log.bookingId]
    IN  /\ log.storeName = booking.storeName
        /\ log.sourceType = booking.sourceType
        /\ log.postDate = booking.postDate
        /\ log.videoLink = booking.videoLink

\* C28: from a store with consistent copies, after any runs every traffic
\* snapshot's storeName, sourceType, postDate and videoLink equal those
\* stored on its booking.
C28_CopiesStayConsistent == CopiesConsistent(db.tables) /\ CopiesConsistent(conn)

====
